---- MODULE Spec2Model ----
(***************************************************************************)
(* The token lifecycle manager (TokenManager) and the caching HTTP client  *)
(* (StravaClient) of the Strava MCP server, as a state machine.            *)
(*                                                                         *)
(* Every asynchronous request() invocation is a logical task.  A task runs *)
(* without interruption between two awaits, so each action below is the    *)
(* code that runs from one suspension point to the next.  An await after   *)
(* which the task reads no shared state before its next await is joined to *)
(* the step that follows it.  The token endpoint and the data API are the  *)
(* environment: they answer each request with any outcome HTTP allows.     *)
(***************************************************************************)
EXTENDS Integers, Sequences, FiniteSets, TLC

VARIABLES
    now,           \* Date.now(), in milliseconds
    env,           \* process.env as read by the TokenManager constructor
    accessToken,   \* TokenManager.accessToken
    refreshToken,  \* TokenManager.refreshToken
    expiresAt,     \* TokenManager.expiresAt (seconds)
    clientId,      \* TokenManager.clientId
    clientSecret,  \* TokenManager.clientSecret
    cache,         \* StravaClient.cache: endpoint -> entry, or NoEntry
    task,          \* the request() invocations: one record per logical task
    grants,        \* the token endpoint: the number of grants it has issued
    calls,         \* number of request() invocations made so far
    last,          \* the step taken last: its operation and task, and, when it
                   \* ended a request(), what the request() returned or threw
    tool,          \* the CallTool handler invocations: the tool each task runs
    reply,         \* what the CallTool handler returned in the step taken last
    recentEvents,  \* index.ts recentEvents: the webhook events, newest first
    verifyToken,   \* process.env.WEBHOOK_VERIFY_TOKEN
    http,          \* the HTTP exchange on /webhook/strava handled in the step
                   \* taken last, or NoExchange
    transports,    \* index.ts transports: session id -> transport
    sse            \* the transports created for /sse, the handlers of /sse that
                   \* await server.connect, and the request handled last

vars == <<now, env, accessToken, refreshToken, expiresAt, clientId, clientSecret,
          cache, task, grants, calls, last, tool, reply,
          recentEvents, verifyToken, http, transports, sse>>

credVars == <<accessToken, refreshToken, expiresAt, clientId, clientSecret>>

toolVars == <<tool, reply>>

hookVars == <<recentEvents, verifyToken, http>>

\* A JavaScript value that is undefined or a string: an unset environment
\* variable, an absent query parameter
Undefined == [kind |-> "undefined", s |-> ""]

Str(s) == [kind |-> "string", s |-> s]

\* No request on /webhook/strava has been handled
NoExchange == [method |-> "", request |-> <<>>, status |-> 0, body |-> Undefined]

\* The webhook state of a server that has received nothing
NoWebhook ==
    /\ recentEvents = <<>>
    /\ verifyToken = Undefined
    /\ http = NoExchange

sseVars == <<transports, sse>>

\* No request on /sse has been handled
NoRequest == [header |-> "", kind |-> "", transport |-> 0]

\* new Map(), and no transport created
NoSessions ==
    /\ transports = [id \in {} |-> 0]
    /\ sse = [objects |-> <<>>, connecting |-> {}, handled |-> NoRequest]

-----------------------------------------------------------------------------
(* Bounds of the model *)

MaxCalls == 3

\* Number of request() invocations in the specification with fairness
MaxLiveCalls == 2

Tasks == {"a", "b"}

\* Clock values: around the cache TTL (300000 ms after 0) and around the
\* grace-window threshold of a token expiring at 3900 s (300 s, 301 s).
Instants == {0, 300000, 301000}

Endpoints == {"/athlete", "/athlete/activities?per_page=30"}

Versions == {"v1", "v2"}

\* STRAVA_EXPIRES_AT of the configuration, and expires_at of refresh responses
EnvExpires == {"3900"}
RespExpires == {3900, 7500}

\* Statuses of non-2xx answers
FailStatus == {401, 500}

-----------------------------------------------------------------------------
(* Program constants *)

cacheDuration == 5 * 60 * 1000

oneHour == 60 * 60

NoEntry == [none |-> TRUE]
NoValue == [none |-> TRUE]
NoTool == [name |-> "", phase |-> 0]

-----------------------------------------------------------------------------
(* Pure helpers *)

\* parseInt on the decimal strings of the configuration
parseInt(s) ==
    CASE s = "0" -> 0
      [] s = "3900" -> 3900

\* Math.floor(Date.now() / 1000)
currentTime(ms) == ms \div 1000

\* Variant: the test with >= for >
NeedsRefreshAtBoundary(ms, exp) == currentTime(ms) >= exp - oneHour

\* getValidToken's test: currentTime > this.expiresAt - oneHour
NeedsRefresh(ms, exp) == currentTime(ms) > exp - oneHour

\* Variant: the TTL taken in seconds
CacheFreshSeconds(entry, ms) ==
    /\ entry # NoEntry
    /\ ms - entry.timestamp < cacheDuration \div 1000

\* Variant: the test with <= for <
CacheFreshInclusive(entry, ms) ==
    /\ entry # NoEntry
    /\ ms - entry.timestamp <= cacheDuration

\* request's test: cached && Date.now() - cached.timestamp < this.cacheDuration
CacheFresh(entry, ms) ==
    /\ entry # NoEntry
    /\ ms - entry.timestamp < cacheDuration

\* response.text() of a non-2xx answer
BodyOf(status) == IF status = 401 THEN "Unauthorized" ELSE "Internal Server Error"

\* Variant: the refresh token read from the configuration
RefreshBodyFromEnv ==
    [client_id |-> clientId, client_secret |-> clientSecret,
     refresh_token |-> env.STRAVA_REFRESH_TOKEN, grant_type |-> "refresh_token"]

\* Variant: the body of the first authorization, with the secret left out
RefreshBodyAuthorizationCode ==
    [client_id |-> clientId, client_secret |-> "",
     refresh_token |-> refreshToken, grant_type |-> "authorization_code"]

\* JSON body of the POST to https://www.strava.com/oauth/token
RefreshBody ==
    [client_id |-> clientId, client_secret |-> clientSecret,
     refresh_token |-> refreshToken, grant_type |-> "refresh_token"]

\* new Error(`Failed to refresh token: ${response.status} ${error}`)
RefreshError(status) ==
    [type |-> "error", message |-> "Failed to refresh token", status |-> status,
     body |-> BodyOf(status)]

\* new Error(`Strava API error: ${response.status} ${error}`)
ApiError(status) ==
    [type |-> "error", message |-> "Strava API error", status |-> status,
     body |-> BodyOf(status)]

\* the rejection of response.json() on a body that is not JSON
ParseError == [type |-> "error", message |-> "invalid json", status |-> 200, body |-> "<html>"]

Returned(data, hit) == [type |-> "ok", data |-> data, fromCache |-> hit]

\* A task that runs no request().  pc is the suspension point; sent is the
\* refresh request in flight and resp the answer to it (locals of refresh());
\* token is the value getValidToken returned and auth the bearer token of the
\* data call.  History of the invocation: nRefresh and nData count the refresh
\* requests and data calls it has sent, granted is the access_token of the
\* response to its own refresh request, and prior is this.accessToken as it
\* was when the invocation sent its refresh request.
IdleTask ==
    [pc |-> "idle", endpoint |-> "", useCache |-> TRUE, token |-> "",
     sent |-> NoValue, resp |-> NoValue, nRefresh |-> 0, nData |-> 0, auth |-> "",
     granted |-> "", prior |-> ""]

\* The record of a step that ends no request()
Step(op, t, e) == [op |-> op, task |-> t, endpoint |-> e, result |-> NoValue]

\* The record of a request() that missed the cache; afterFailure tells whether
\* the step before it was a refresh that failed
MissStep(t, e) ==
    [op |-> "miss", task |-> t, endpoint |-> e, result |-> NoValue,
     afterFailure |-> last.op = "refreshFail"]

\* The record of the step that ends a request() for endpoint e with result r
Ended(op, t, e, r) == [op |-> op, task |-> t, endpoint |-> e, result |-> r]

-----------------------------------------------------------------------------
(* Initial state: the state after new TokenManager() and new StravaClient() *)

Init ==
    /\ now = 0
    /\ env \in [STRAVA_ACCESS_TOKEN : {"A0"}, STRAVA_REFRESH_TOKEN : {"R0"},
                STRAVA_EXPIRES_AT : EnvExpires,
                STRAVA_CLIENT_ID : {"id"}, STRAVA_CLIENT_SECRET : {"secret"}]
    /\ accessToken = env.STRAVA_ACCESS_TOKEN
    /\ refreshToken = env.STRAVA_REFRESH_TOKEN
    /\ expiresAt = parseInt(env.STRAVA_EXPIRES_AT)
    /\ clientId = env.STRAVA_CLIENT_ID
    /\ clientSecret = env.STRAVA_CLIENT_SECRET
    /\ cache = [e \in Endpoints |-> NoEntry]
    /\ task = [t \in Tasks |-> IdleTask]
    /\ grants = 0
    /\ calls = 0
    /\ last = Step("init", "", "")
    /\ tool = [t \in Tasks |-> NoTool]
    /\ reply = NoValue
    /\ NoWebhook
    /\ NoSessions

-----------------------------------------------------------------------------
(* TokenManager *)

\* refresh(), up to its await on fetch: the POST is sent with the refresh
\* token the store holds at this moment.
refresh(rec) ==
    [rec EXCEPT !.pc = "refreshing", !.sent = RefreshBody, !.nRefresh = @ + 1,
                !.prior = accessToken]

\* fetch(url, {headers: {Authorization: `Bearer ${token}`}}) in request()
fetch(rec, token) ==
    [rec EXCEPT !.pc = "fetching", !.token = token, !.auth = token, !.nData = @ + 1]

\* Variant: a refresh already in flight is not doubled (single flight)
getValidTokenSingleFlight(rec) ==
    IF NeedsRefresh(now, expiresAt) /\ \A x \in Tasks : task[x].pc # "refreshing"
    THEN refresh(rec)
    ELSE fetch(rec, accessToken)

\* getValidToken(), up to its first await.  Without a refresh it returns
\* this.accessToken as it is now, and request() goes on to its fetch.
getValidToken(rec) ==
    IF NeedsRefresh(now, expiresAt)
    THEN refresh(rec)
    ELSE fetch(rec, accessToken)

-----------------------------------------------------------------------------
(* StravaClient.request *)

\* Variant: a read that finds an expired entry deletes it
requestEvictsExpired(t, e, u) ==
    /\ task[t].pc = "idle"
    /\ calls < MaxCalls
    /\ calls' = calls + 1
    /\ LET rec == [IdleTask EXCEPT !.endpoint = e, !.useCache = u] IN
       IF u /\ CacheFresh(cache[e], now)
       THEN /\ task' = task
            /\ last' = Ended("hit", t, e, Returned(cache[e].data, TRUE))
            /\ cache' = cache
       ELSE /\ task' = [task EXCEPT ![t] = getValidToken(rec)]
            /\ last' = MissStep(t, e)
            /\ cache' = [cache EXCEPT ![e] = NoEntry]
    /\ UNCHANGED <<now, env, credVars, grants>>

\* request(endpoint, useCache): the cache check, and on a miss the call of
\* getValidToken.  Every caller in the client (getActivities, getActivity,
\* getAthleteStats, getLoggedInAthlete) passes useCache = true.
requestCall(t, e, u) ==
    /\ task[t].pc = "idle"
    /\ calls' = calls + 1
    /\ LET rec == [IdleTask EXCEPT !.endpoint = e, !.useCache = u] IN
       IF u /\ CacheFresh(cache[e], now)
       THEN /\ task' = task
            /\ last' = Ended("hit", t, e, Returned(cache[e].data, TRUE))
       ELSE /\ task' = [task EXCEPT ![t] = getValidToken(rec)]
            /\ last' = MissStep(t, e)
    /\ UNCHANGED <<now, env, credVars, cache, grants>>

\* request() for as long as the model accepts calls
request(t, e, u) ==
    /\ calls < MaxCalls
    /\ requestCall(t, e, u)

-----------------------------------------------------------------------------
(* The token endpoint (environment) *)

\* The grants the endpoint can answer with to a refresh request carrying
\* refresh token r when it has issued k grants: a new access token (grant
\* number k + 1), with a refresh token that is new or the one presented.
TokenGrants(r, k) ==
    [access_token : {"A" \o ToString(k + 1)},
     refresh_token : {"R" \o ToString(k + 1), r},
     expires_at : RespExpires]

\* The endpoint answers a refresh request with a grant (200).
TokenEndpoint(t) ==
    /\ task[t].pc = "refreshing"
    /\ task[t].resp = NoValue
    /\ \E g \in TokenGrants(task[t].sent.refresh_token, grants) :
          task' = [task EXCEPT ![t].resp = g]
    /\ grants' = grants + 1
    /\ last' = Step("tokenEndpoint", t, task[t].endpoint)
    /\ UNCHANGED <<now, env, credVars, cache, calls>>

-----------------------------------------------------------------------------
(* TokenManager.refresh, after the response *)

\* Variant: the access token is not assigned
StoreCredentialsKeepAccess(data) ==
    /\ accessToken' = accessToken
    /\ refreshToken' = data.refresh_token
    /\ expiresAt' = data.expires_at

\* Variant: the expiry is not assigned
StoreCredentialsKeepExpiry(data) ==
    /\ accessToken' = data.access_token
    /\ refreshToken' = data.refresh_token
    /\ expiresAt' = expiresAt

\* The three assignments that follow response.json()
StoreCredentials(data) ==
    /\ accessToken' = data.access_token
    /\ refreshToken' = data.refresh_token
    /\ expiresAt' = data.expires_at

\* A 2xx answer with a JSON body: the credentials are replaced and refresh()
\* returns; getValidToken resumes in a later microtask.
RefreshOk(t) ==
    /\ task[t].pc = "refreshing"
    /\ task[t].resp # NoValue
    /\ StoreCredentials(task[t].resp)
    /\ task' = [task EXCEPT ![t].pc = "refreshed", ![t].sent = NoValue,
                            ![t].resp = NoValue,
                            ![t].granted = task[t].resp.access_token]
    /\ last' = Step("refreshOk", t, task[t].endpoint)
    /\ UNCHANGED <<now, env, clientId, clientSecret, cache, grants, calls>>

\* Variant: a failed refresh discards the refresh token it presented
FailedRefreshDropsRefreshToken ==
    /\ refreshToken' = ""
    /\ UNCHANGED <<accessToken, expiresAt>>

\* Variant: a failed refresh clears the access token
FailedRefreshDropsToken ==
    /\ accessToken' = ""
    /\ UNCHANGED <<refreshToken, expiresAt>>

\* What refresh() does to the credentials when it throws
FailedRefreshCredentials == UNCHANGED <<accessToken, refreshToken, expiresAt>>

\* A non-2xx answer (refresh() throws the status and the body text), or a 2xx
\* answer whose body is not JSON (response.json() rejects): the error passes
\* through getValidToken and request() to the caller.
RefreshFail(t) ==
    /\ task[t].pc = "refreshing"
    /\ task[t].resp = NoValue
    /\ \E r \in {RefreshError(s) : s \in FailStatus} \cup {ParseError} :
          last' = Ended("refreshFail", t, task[t].endpoint, r)
    /\ task' = [task EXCEPT ![t] = IdleTask]
    /\ FailedRefreshCredentials
    /\ UNCHANGED <<now, env, clientId, clientSecret, cache, grants, calls>>

\* Variant: the token is read before the refresh is awaited
TokenBeforeRefresh(t) == task[t].prior

\* getValidToken after `await this.refresh()`: return this.accessToken, read now
TokenAfterRefresh(t) == accessToken

\* Variant: getValidToken tests the expiry again after the refresh
getValidTokenReturnRechecks(t) ==
    /\ task[t].pc = "refreshed"
    /\ task' = [task EXCEPT ![t] = IF NeedsRefresh(now, expiresAt)
                                    THEN refresh(task[t])
                                    ELSE fetch(task[t], accessToken)]
    /\ last' = Step("fetch", t, task[t].endpoint)
    /\ UNCHANGED <<now, env, credVars, cache, grants, calls>>

\* Variant: getValidToken returns only once the stored token is outside the
\* grace window
getValidTokenReturnIfValid(t) ==
    /\ task[t].pc = "refreshed"
    /\ ~NeedsRefresh(now, expiresAt)
    /\ task' = [task EXCEPT ![t] = fetch(task[t], accessToken)]
    /\ last' = Step("fetch", t, task[t].endpoint)
    /\ UNCHANGED <<now, env, credVars, cache, grants, calls>>

\* getValidToken returns and request() sends its data call.
getValidTokenReturn(t) ==
    /\ task[t].pc = "refreshed"
    /\ task' = [task EXCEPT ![t] = fetch(task[t], TokenAfterRefresh(t))]
    /\ last' = Step("fetch", t, task[t].endpoint)
    /\ UNCHANGED <<now, env, credVars, cache, grants, calls>>

-----------------------------------------------------------------------------
(* StravaClient.request, after the data call *)

\* The same query with its parameters in the other order
OtherOrder(e) ==
    CASE e = "/athlete/activities?page=1&per_page=30" ->
            "/athlete/activities?per_page=30&page=1"
      [] e = "/athlete/activities?per_page=30&page=1" ->
            "/athlete/activities?page=1&per_page=30"
      [] OTHER -> e

\* Variant: the key is the query with its parameters sorted by name
CacheAfterStoreSortedKey(e, u, data) ==
    LET k == IF e = "/athlete/activities?per_page=30&page=1" THEN OtherOrder(e) ELSE e
    IN  IF u THEN [cache EXCEPT ![k] = [data |-> data, timestamp |-> now]] ELSE cache

\* Variant: the payload is stored whatever useCache says
CacheAfterStoreAlways(e, u, data) ==
    [cache EXCEPT ![e] = [data |-> data, timestamp |-> now]]

\* Variant: the timestamp taken in seconds
CacheAfterStoreSeconds(e, u, data) ==
    IF u THEN [cache EXCEPT ![e] = [data |-> data, timestamp |-> currentTime(now)]]
    ELSE cache

\* this.cache.set(cacheKey, {data, timestamp: Date.now()}) when useCache
CacheAfterStore(e, u, data) ==
    IF u THEN [cache EXCEPT ![e] = [data |-> data, timestamp |-> now]] ELSE cache

\* A 2xx answer with a JSON body: the payload is cached and returned.
DataOk(t) ==
    /\ task[t].pc = "fetching"
    /\ \E v \in Versions :
          LET data == [endpoint |-> task[t].endpoint, version |-> v] IN
          /\ cache' = CacheAfterStore(task[t].endpoint, task[t].useCache, data)
          /\ last' = Ended("dataOk", t, task[t].endpoint, Returned(data, FALSE))
    /\ task' = [task EXCEPT ![t] = IdleTask]
    /\ UNCHANGED <<now, env, credVars, grants, calls>>

\* Variant: a failed data call removes the entry of its endpoint
CacheAfterFailureEvicts(e) == [cache EXCEPT ![e] = NoEntry]

\* Variant: a failure is cached like a payload
CacheAfterFailureStores(e) ==
    [cache EXCEPT ![e] = [data |-> [endpoint |-> e, version |-> "v1"],
                          timestamp |-> now]]

\* The cache when request() throws: the throw precedes this.cache.set
CacheAfterFailure(e) == cache

\* Variant: a failed data call discards the access token it was sent with
DataFailDropsToken(t) ==
    /\ task[t].pc = "fetching"
    /\ \E r \in {ApiError(s) : s \in FailStatus} \cup {ParseError} :
          last' = Ended("dataFail", t, task[t].endpoint, r)
    /\ task' = [task EXCEPT ![t] = IdleTask]
    /\ cache' = CacheAfterFailure(task[t].endpoint)
    /\ accessToken' = ""
    /\ UNCHANGED <<now, env, refreshToken, expiresAt, clientId, clientSecret,
                   grants, calls>>

\* A non-2xx answer (request() throws the status and the body text), or a 2xx
\* answer whose body is not JSON (response.json() rejects).
DataFail(t) ==
    /\ task[t].pc = "fetching"
    /\ \E r \in {ApiError(s) : s \in FailStatus} \cup {ParseError} :
          last' = Ended("dataFail", t, task[t].endpoint, r)
    /\ task' = [task EXCEPT ![t] = IdleTask]
    /\ cache' = CacheAfterFailure(task[t].endpoint)
    /\ UNCHANGED <<now, env, credVars, grants, calls>>

\* Variant: only the entries past their TTL are removed
clearCacheExpiredOnly ==
    /\ cache # [e \in DOMAIN cache |-> NoEntry]
    /\ cache' = [e \in DOMAIN cache |->
                    IF CacheFresh(cache[e], now) THEN cache[e] ELSE NoEntry]
    /\ last' = Step("clearCache", "", "")
    /\ UNCHANGED <<now, env, credVars, task, grants, calls>>

\* clearCache(): this.cache.clear()
clearCache ==
    /\ cache # [e \in DOMAIN cache |-> NoEntry]
    /\ cache' = [e \in DOMAIN cache |-> NoEntry]
    /\ last' = Step("clearCache", "", "")
    /\ UNCHANGED <<now, env, credVars, task, grants, calls>>

\* Variant: a timer that refreshes the token once it is inside the grace
\* window
TickRefreshes ==
    /\ \E i \in Instants : i > now /\ now' = i
    /\ last' = Step("tick", "", "")
    /\ task' = IF NeedsRefresh(now', expiresAt) /\ task["a"].pc = "idle"
               THEN [task EXCEPT !["a"] = refresh(IdleTask)]
               ELSE task
    /\ UNCHANGED <<env, credVars, cache, grants, calls>>

\* The clock advances.
Tick ==
    /\ \E i \in Instants : i > now /\ now' = i
    /\ last' = Step("tick", "", "")
    /\ UNCHANGED <<env, credVars, cache, task, grants, calls>>

-----------------------------------------------------------------------------

Next ==
    \/ \E t \in Tasks, e \in Endpoints : request(t, e, TRUE) /\ UNCHANGED <<toolVars, hookVars, sseVars>>
    \/ \E t \in Tasks : TokenEndpoint(t) /\ UNCHANGED <<toolVars, hookVars, sseVars>>
    \/ \E t \in Tasks : RefreshOk(t) /\ UNCHANGED <<toolVars, hookVars, sseVars>>
    \/ \E t \in Tasks : RefreshFail(t) /\ UNCHANGED <<toolVars, hookVars, sseVars>>
    \/ \E t \in Tasks : getValidTokenReturn(t) /\ UNCHANGED <<toolVars, hookVars, sseVars>>
    \/ \E t \in Tasks : DataOk(t) /\ UNCHANGED <<toolVars, hookVars, sseVars>>
    \/ \E t \in Tasks : DataFail(t) /\ UNCHANGED <<toolVars, hookVars, sseVars>>
    \/ clearCache /\ UNCHANGED <<toolVars, hookVars, sseVars>>
    \/ Tick /\ UNCHANGED <<toolVars, hookVars, sseVars>>

Spec == Init /\ [][Next]_vars

\* One request() at a time: a call starts only when no other is in flight.
requestAlone(t, e, u) ==
    /\ \A x \in Tasks : task[x].pc = "idle"
    /\ request(t, e, u)

NextSingle ==
    \/ \E t \in Tasks, e \in Endpoints : requestAlone(t, e, TRUE) /\ UNCHANGED <<toolVars, hookVars, sseVars>>
    \/ \E t \in Tasks : TokenEndpoint(t) /\ UNCHANGED <<toolVars, hookVars, sseVars>>
    \/ \E t \in Tasks : RefreshOk(t) /\ UNCHANGED <<toolVars, hookVars, sseVars>>
    \/ \E t \in Tasks : RefreshFail(t) /\ UNCHANGED <<toolVars, hookVars, sseVars>>
    \/ \E t \in Tasks : getValidTokenReturn(t) /\ UNCHANGED <<toolVars, hookVars, sseVars>>
    \/ \E t \in Tasks : DataOk(t) /\ UNCHANGED <<toolVars, hookVars, sseVars>>
    \/ \E t \in Tasks : DataFail(t) /\ UNCHANGED <<toolVars, hookVars, sseVars>>
    \/ clearCache /\ UNCHANGED <<toolVars, hookVars, sseVars>>
    \/ Tick /\ UNCHANGED <<toolVars, hookVars, sseVars>>

SpecSingle == Init /\ [][NextSingle]_vars

\* Upstream answers every request it receives, and the event loop resumes
\* every continuation that is ready: each task's pending step is taken.
Progress ==
    \A t \in Tasks :
        /\ WF_vars((TokenEndpoint(t) \/ RefreshFail(t)) /\ UNCHANGED <<toolVars, hookVars, sseVars>>)
        /\ WF_vars(RefreshOk(t) /\ UNCHANGED <<toolVars, hookVars, sseVars>>)
        /\ WF_vars(getValidTokenReturn(t) /\ UNCHANGED <<toolVars, hookVars, sseVars>>)
        /\ WF_vars((DataOk(t) \/ DataFail(t)) /\ UNCHANGED <<toolVars, hookVars, sseVars>>)

\* A request() call while fewer than MaxLiveCalls have been made
requestLive(t, e, u) ==
    /\ calls < MaxLiveCalls
    /\ request(t, e, u)

NextLive ==
    \/ \E t \in Tasks, e \in Endpoints : requestLive(t, e, TRUE) /\ UNCHANGED <<toolVars, hookVars, sseVars>>
    \/ \E t \in Tasks : TokenEndpoint(t) /\ UNCHANGED <<toolVars, hookVars, sseVars>>
    \/ \E t \in Tasks : RefreshOk(t) /\ UNCHANGED <<toolVars, hookVars, sseVars>>
    \/ \E t \in Tasks : RefreshFail(t) /\ UNCHANGED <<toolVars, hookVars, sseVars>>
    \/ \E t \in Tasks : getValidTokenReturn(t) /\ UNCHANGED <<toolVars, hookVars, sseVars>>
    \/ \E t \in Tasks : DataOk(t) /\ UNCHANGED <<toolVars, hookVars, sseVars>>
    \/ \E t \in Tasks : DataFail(t) /\ UNCHANGED <<toolVars, hookVars, sseVars>>
    \/ clearCache /\ UNCHANGED <<toolVars, hookVars, sseVars>>
    \/ Tick /\ UNCHANGED <<toolVars, hookVars, sseVars>>

SpecLive == Init /\ [][NextLive]_vars /\ Progress

-----------------------------------------------------------------------------
(* request() with either value of useCache, for two endpoint strings that *)
(* name the same query with the parameters in different orders            *)

\* Number of request() invocations in this specification
MaxClientCalls == 3

KeyEndpoints ==
    {"/athlete/activities?page=1&per_page=30", "/athlete/activities?per_page=30&page=1"}

InitClient ==
    /\ now = 0
    /\ env \in [STRAVA_ACCESS_TOKEN : {"A0"}, STRAVA_REFRESH_TOKEN : {"R0"},
                STRAVA_EXPIRES_AT : EnvExpires,
                STRAVA_CLIENT_ID : {"id"}, STRAVA_CLIENT_SECRET : {"secret"}]
    /\ accessToken = env.STRAVA_ACCESS_TOKEN
    /\ refreshToken = env.STRAVA_REFRESH_TOKEN
    /\ expiresAt = parseInt(env.STRAVA_EXPIRES_AT)
    /\ clientId = env.STRAVA_CLIENT_ID
    /\ clientSecret = env.STRAVA_CLIENT_SECRET
    /\ cache = [e \in KeyEndpoints |-> NoEntry]
    /\ task = [t \in Tasks |-> IdleTask]
    /\ grants = 0
    /\ calls = 0
    /\ last = Step("init", "", "")
    /\ tool = [t \in Tasks |-> NoTool]
    /\ reply = NoValue
    /\ NoWebhook
    /\ NoSessions

\* A request() call, with or without the cache, when no other is in flight
requestClient(t, e, u) ==
    /\ calls < MaxClientCalls
    /\ requestAlone(t, e, u)

NextClient ==
    \/ \E t \in Tasks, e \in KeyEndpoints, u \in BOOLEAN :
          requestClient(t, e, u) /\ UNCHANGED <<toolVars, hookVars, sseVars>>
    \/ \E t \in Tasks : TokenEndpoint(t) /\ UNCHANGED <<toolVars, hookVars, sseVars>>
    \/ \E t \in Tasks : RefreshOk(t) /\ UNCHANGED <<toolVars, hookVars, sseVars>>
    \/ \E t \in Tasks : RefreshFail(t) /\ UNCHANGED <<toolVars, hookVars, sseVars>>
    \/ \E t \in Tasks : getValidTokenReturn(t) /\ UNCHANGED <<toolVars, hookVars, sseVars>>
    \/ \E t \in Tasks : DataOk(t) /\ UNCHANGED <<toolVars, hookVars, sseVars>>
    \/ \E t \in Tasks : DataFail(t) /\ UNCHANGED <<toolVars, hookVars, sseVars>>
    \/ clearCache /\ UNCHANGED <<toolVars, hookVars, sseVars>>
    \/ Tick /\ UNCHANGED <<toolVars, hookVars, sseVars>>

SpecClient == InitClient /\ [][NextClient]_vars

-----------------------------------------------------------------------------
(* Startup: new TokenManager() inside the try/catch of index.ts *)

\* process.env.X || d: an unset variable and an empty one both give d
OrDefault(v, d) == IF v = "" THEN d ELSE v

\* Variant: only the client id and the client secret are tested
ConstructorErrorClientOnly(e) ==
    IF OrDefault(e.STRAVA_CLIENT_ID, "") = ""
          \/ OrDefault(e.STRAVA_CLIENT_SECRET, "") = ""
    THEN "STRAVA_CLIENT_ID and STRAVA_CLIENT_SECRET must be set"
    ELSE ""

\* The message of the Error the constructor throws for configuration e, ""
\* when it throws none: the two tests that follow its five assignments
ConstructorError(e) ==
    IF OrDefault(e.STRAVA_CLIENT_ID, "") = ""
          \/ OrDefault(e.STRAVA_CLIENT_SECRET, "") = ""
    THEN "STRAVA_CLIENT_ID and STRAVA_CLIENT_SECRET must be set"
    ELSE IF OrDefault(e.STRAVA_ACCESS_TOKEN, "") = ""
               \/ OrDefault(e.STRAVA_REFRESH_TOKEN, "") = ""
         THEN "STRAVA_ACCESS_TOKEN and STRAVA_REFRESH_TOKEN must be set. Run setup-auth.ts first."
         ELSE ""

\* catch (error) { console.error(...); process.exit(1) }: the last step of a
\* process that failed to initialize
Exit(message) ==
    [op |-> "exit", task |-> "", endpoint |-> "",
     result |-> [type |-> "error", message |-> message, code |-> 1]]

\* The process has not exited.
Running == last.op # "exit"

\* Configurations in which each variable is set or not ("" when it is not)
StartupEnv ==
    [STRAVA_ACCESS_TOKEN : {"", "A0"}, STRAVA_REFRESH_TOKEN : {"", "R0"},
     STRAVA_EXPIRES_AT : {"", "3900"},
     STRAVA_CLIENT_ID : {"", "id"}, STRAVA_CLIENT_SECRET : {"", "secret"}]

\* The state after the try/catch around new TokenManager()
InitStartup ==
    /\ now = 0
    /\ env \in StartupEnv
    /\ accessToken = OrDefault(env.STRAVA_ACCESS_TOKEN, "")
    /\ refreshToken = OrDefault(env.STRAVA_REFRESH_TOKEN, "")
    /\ expiresAt = parseInt(OrDefault(env.STRAVA_EXPIRES_AT, "0"))
    /\ clientId = OrDefault(env.STRAVA_CLIENT_ID, "")
    /\ clientSecret = OrDefault(env.STRAVA_CLIENT_SECRET, "")
    /\ cache = [e \in Endpoints |-> NoEntry]
    /\ task = [t \in Tasks |-> IdleTask]
    /\ grants = 0
    /\ calls = 0
    /\ last = IF ConstructorError(env) = ""
              THEN Step("init", "", "")
              ELSE Exit(ConstructorError(env))
    /\ tool = [t \in Tasks |-> NoTool]
    /\ reply = NoValue
    /\ NoWebhook
    /\ NoSessions

\* A process that has exited takes no step.
NextStartup == Running /\ NextSingle

SpecStartup == InitStartup /\ [][NextStartup]_vars

-----------------------------------------------------------------------------
(* The tools and the CallToolRequestSchema handler of index.ts *)

\* Number of request() invocations after which no new tool call is accepted
MaxToolCalls == 2

DaySeconds == 24 * 60 * 60

\* params.days_back || 90, params.weeks || 8: 0 stands for an omitted argument
OrNumber(v, d) == IF v = 0 THEN d ELSE v

\* d = new Date(); d.setDate(d.getDate() - days); Math.floor(d.getTime() / 1000)
\* (days of 24 hours: a time zone without a clock change in the interval).
\* A whole number of days is a whole number of seconds, so the floor of
\* (ms - days * 86400000) / 1000 is the floor of ms / 1000 less days * 86400.
AfterTimestamp(ms, days) == (ms \div 1000) - days * DaySeconds

\* getActivities({after, per_page}): URLSearchParams gets each parameter that
\* is truthy, in the order before, after, page, per_page
ActivitiesEndpoint(after, perPage) ==
    "/athlete/activities?"
       \o (IF after # 0 THEN "after=" \o ToString(after) ELSE "")
       \o (IF after # 0 /\ perPage # 0 THEN "&" ELSE "")
       \o (IF perPage # 0 THEN "per_page=" \o ToString(perPage) ELSE "")

\* The tools that list activities since a moment computed from the clock
ActivityTools ==
    {"strava_get_activities", "strava_search_activities", "strava_analyze_trends"}

\* The tool calls of the model: name and arguments.  days is days_back of
\* strava_get_activities (0: omitted); strava_search_activities is called
\* without dates, strava_analyze_trends without weeks, strava_get_activities
\* without limit, strava_get_activity_details with activity_id "1".
ToolCalls ==
    [name : {"strava_get_activities"}, days : {0, 7}]
       \cup [name : {"strava_search_activities", "strava_analyze_trends",
                     "strava_get_activity_details", "strava_get_athlete_stats",
                     "strava_get_recent_events", "strava_delete_activity"},
             days : {0}]

\* The endpoint of the first client call of tool call c made at clock ms
FirstEndpoint(c, ms) ==
    CASE c.name = "strava_get_activities" ->
            ActivitiesEndpoint(AfterTimestamp(ms, OrNumber(c.days, 90)), 30)
      [] c.name = "strava_search_activities" ->
            ActivitiesEndpoint(AfterTimestamp(ms, 90), 100)
      [] c.name = "strava_analyze_trends" ->
            ActivitiesEndpoint(AfterTimestamp(ms, OrNumber(0, 8) * 7), 200)
      [] c.name = "strava_get_activity_details" -> "/activities/" \o "1"
      [] c.name = "strava_get_athlete_stats" -> "/athlete"

\* getAthleteStats(athlete.id.toString()) for the athlete with id 7
StatsEndpoint == "/athletes/" \o ToString(7) \o "/stats"

\* The tools that call the client
ClientTools == ActivityTools \cup {"strava_get_activity_details", "strava_get_athlete_stats"}

\* Every endpoint a tool call of the model can ask for
ToolEndpoints ==
    {FirstEndpoint(c, i) : c \in {x \in ToolCalls : x.name \in ClientTools}, i \in Instants}
       \cup {StatsEndpoint}

\* error.message of what request() throws
ErrorMessage(r) ==
    IF r = ParseError THEN r.message
    ELSE r.message \o ": " \o ToString(r.status) \o " " \o r.body

\* Variant: the error text returned as an ordinary result
ErrorReplyAsResult(message) == [isError |-> FALSE, text |-> "Error: " \o message]

\* The handler's catch: {content: [{type: 'text', text: `Error: ${message}`}],
\* isError: true}
ErrorReply(message) == [isError |-> TRUE, text |-> "Error: " \o message]

\* {content: [{type: 'text', text: result}]}; isError is absent
OkReply(text) == [isError |-> FALSE, text |-> text]

\* The text a tool makes of the payload of its last client call
FormatResult(name, data) == name \o ": " \o data.endpoint \o " " \o data.version

\* The tool call of task t got data from the client.  strava_get_athlete_stats
\* goes on to its second client call (phase 2); any other tool returns.
ToolGot(t, c, data) ==
    IF c.name = "strava_get_athlete_stats" /\ c.phase = 1
    THEN /\ tool' = [tool EXCEPT ![t] = [c EXCEPT !.phase = 2]]
         /\ reply' = NoValue
    ELSE /\ tool' = [tool EXCEPT ![t] = NoTool]
         /\ reply' = OkReply(FormatResult(c.name, data))

\* Variant: strava_get_athlete_stats goes on to its second lookup when the
\* first one threw
ToolThrewGoesOn(t, r) ==
    IF tool[t].name = "strava_get_athlete_stats" /\ tool[t].phase = 1
    THEN /\ tool' = [tool EXCEPT ![t].phase = 2]
         /\ reply' = NoValue
    ELSE /\ tool' = [tool EXCEPT ![t] = NoTool]
         /\ reply' = ErrorReply(ErrorMessage(r))

\* The client call of task t threw r: the handler's catch answers.
ToolThrew(t, r) ==
    /\ tool' = [tool EXCEPT ![t] = NoTool]
    /\ reply' = ErrorReply(ErrorMessage(r))

\* A step inside a client call: the handler returns nothing yet.
Quiet == reply' = NoValue /\ UNCHANGED tool

\* recentEvents.length > 100
BufferLimit == 100

\* Math.min(limit, 100)
MaxReturned == 100

Min(a, b) == IF a < b THEN a ELSE b

Max(a, b) == IF a > b THEN a ELSE b

\* The entry addWebhookEvent builds; eventTime arrives in seconds
WebhookEvent(type, activityId, athleteId, eventTime) ==
    [type |-> type, activityId |-> activityId, athleteId |-> athleteId,
     timestamp |-> now, eventTime |-> eventTime * 1000]

\* Variant: the buffer is trimmed one entry later
addWebhookEventLate(type, activityId, athleteId, eventTime) ==
    LET pushed == <<WebhookEvent(type, activityId, athleteId, eventTime)>>
                     \o recentEvents IN
    IF Len(pushed) > BufferLimit + 1
    THEN SubSeq(pushed, 1, Len(pushed) - 1) ELSE pushed

\* addWebhookEvent: recentEvents.unshift(entry), then recentEvents.pop() when
\* the length is over 100.  The value is the array afterwards.
addWebhookEvent(type, activityId, athleteId, eventTime) ==
    LET pushed == <<WebhookEvent(type, activityId, athleteId, eventTime)>>
                     \o recentEvents IN
    IF Len(pushed) > BufferLimit
    THEN SubSeq(pushed, 1, Len(pushed) - 1) ELSE pushed

\* Array.prototype.slice(0, end): a negative end counts from the end of the
\* array, and the bounds are clamped to the array
Slice(s, end) ==
    LET k == IF end < 0 THEN Max(Len(s) + end, 0) ELSE Min(end, Len(s)) IN
    SubSeq(s, 1, k)

\* The limit argument of strava_get_recent_events: omitted, or a number
Omitted == [kind |-> "undefined", n |-> 0]

Num(n) == [kind |-> "number", n |-> n]

\* (args as any)?.limit || 10: undefined and 0 are falsy
LimitOr(l, d) == IF l.kind = "undefined" \/ l.n = 0 THEN d ELSE l.n

\* One entry of formattedEvents; the two instants are kept as numbers, where
\* the code renders them with toISOString()
FormattedEvent(e) ==
    [type |-> e.type, activityId |-> e.activityId, athleteId |-> e.athleteId,
     eventTime |-> e.eventTime, receivedAt |-> e.timestamp]

\* recentEvents.slice(0, Math.min(limit, 100)).map(...)
RecentEvents(l) ==
    LET events == Slice(recentEvents, Min(LimitOr(l, 10), MaxReturned)) IN
    [i \in 1..Len(events) |-> FormattedEvent(events[i])]

\* The result of strava_get_recent_events: the text is
\* JSON.stringify({count, events}); events carries the list the text shows
RecentEventsReply(l) ==
    [isError |-> FALSE,
     text |-> "{count: " \o ToString(Len(RecentEvents(l))) \o "}",
     events |-> RecentEvents(l)]

\* The handler is invoked for tool call c: the switch over the name and, for
\* a tool of the client, the tool function up to its first await.  Tool calls
\* are taken one at a time: a call arrives when the one before is answered.
HandleTool(t, c) ==
    /\ \A x \in Tasks : tool[x] = NoTool /\ task[x].pc = "idle"
    /\ IF c.name \in ClientTools
       THEN /\ requestCall(t, FirstEndpoint(c, now), TRUE)
            /\ LET run == [name |-> c.name, days |-> c.days, phase |-> 1] IN
               IF last'.op = "hit"
               THEN ToolGot(t, run, last'.result.data)
               ELSE tool' = [tool EXCEPT ![t] = run] /\ reply' = NoValue
       ELSE /\ last' = Step("callTool", t, "")
            /\ reply' = IF c.name = "strava_get_recent_events"
                        THEN RecentEventsReply(Omitted)
                        ELSE ErrorReply("Unknown tool: " \o c.name)
            /\ UNCHANGED <<now, env, credVars, cache, task, grants, calls, tool>>

\* A tool call, for as long as the model accepts tool calls
CallTool(t, c) ==
    /\ calls < MaxToolCalls
    /\ HandleTool(t, c)

\* strava_get_athlete_stats resumes with the athlete and calls getAthleteStats.
StatsSecondCall(t) ==
    /\ tool[t].name = "strava_get_athlete_stats"
    /\ tool[t].phase = 2
    /\ requestCall(t, StatsEndpoint, TRUE)
    /\ IF last'.op = "hit"
       THEN ToolGot(t, [tool[t] EXCEPT !.phase = 3], last'.result.data)
       ELSE tool' = [tool EXCEPT ![t].phase = 3] /\ reply' = NoValue

\* The state after startup when the server answers tool calls
InitTools ==
    /\ now = 0
    /\ env \in [STRAVA_ACCESS_TOKEN : {"A0"}, STRAVA_REFRESH_TOKEN : {"R0"},
                STRAVA_EXPIRES_AT : EnvExpires,
                STRAVA_CLIENT_ID : {"id"}, STRAVA_CLIENT_SECRET : {"secret"}]
    /\ accessToken = env.STRAVA_ACCESS_TOKEN
    /\ refreshToken = env.STRAVA_REFRESH_TOKEN
    /\ expiresAt = parseInt(env.STRAVA_EXPIRES_AT)
    /\ clientId = env.STRAVA_CLIENT_ID
    /\ clientSecret = env.STRAVA_CLIENT_SECRET
    /\ cache = [e \in ToolEndpoints |-> NoEntry]
    /\ task = [t \in Tasks |-> IdleTask]
    /\ grants = 0
    /\ calls = 0
    /\ last = Step("init", "", "")
    /\ tool = [t \in Tasks |-> NoTool]
    /\ reply = NoValue
    /\ NoWebhook
    /\ NoSessions

NextTools ==
    \/ \E t \in Tasks, c \in ToolCalls : CallTool(t, c) /\ UNCHANGED <<hookVars, sseVars>>
    \/ \E t \in Tasks : StatsSecondCall(t) /\ UNCHANGED <<hookVars, sseVars>>
    \/ \E t \in Tasks : TokenEndpoint(t) /\ Quiet /\ UNCHANGED <<hookVars, sseVars>>
    \/ \E t \in Tasks : RefreshOk(t) /\ Quiet /\ UNCHANGED <<hookVars, sseVars>>
    \/ \E t \in Tasks : RefreshFail(t) /\ ToolThrew(t, last'.result) /\ UNCHANGED <<hookVars, sseVars>>
    \/ \E t \in Tasks : getValidTokenReturn(t) /\ Quiet /\ UNCHANGED <<hookVars, sseVars>>
    \/ \E t \in Tasks : DataOk(t) /\ ToolGot(t, tool[t], last'.result.data) /\ UNCHANGED <<hookVars, sseVars>>
    \/ \E t \in Tasks : DataFail(t) /\ ToolThrew(t, last'.result) /\ UNCHANGED <<hookVars, sseVars>>
    \/ Tick /\ Quiet /\ UNCHANGED <<hookVars, sseVars>>

SpecTools == InitTools /\ [][NextTools]_vars

-----------------------------------------------------------------------------
(* strava_get_athlete_stats called again and again *)

\* Number of request() invocations after which no new call of the tool is
\* accepted
MaxStatsCalls == 3

StatsCall == [name |-> "strava_get_athlete_stats", days |-> 0]

CallStats(t) ==
    /\ calls < MaxStatsCalls
    /\ HandleTool(t, StatsCall)

NextStats ==
    \/ \E t \in Tasks : CallStats(t) /\ UNCHANGED <<hookVars, sseVars>>
    \/ \E t \in Tasks : StatsSecondCall(t) /\ UNCHANGED <<hookVars, sseVars>>
    \/ \E t \in Tasks : TokenEndpoint(t) /\ Quiet /\ UNCHANGED <<hookVars, sseVars>>
    \/ \E t \in Tasks : RefreshOk(t) /\ Quiet /\ UNCHANGED <<hookVars, sseVars>>
    \/ \E t \in Tasks : RefreshFail(t) /\ ToolThrew(t, last'.result) /\ UNCHANGED <<hookVars, sseVars>>
    \/ \E t \in Tasks : getValidTokenReturn(t) /\ Quiet /\ UNCHANGED <<hookVars, sseVars>>
    \/ \E t \in Tasks : DataOk(t) /\ ToolGot(t, tool[t], last'.result.data) /\ UNCHANGED <<hookVars, sseVars>>
    \/ \E t \in Tasks : DataFail(t) /\ ToolThrew(t, last'.result) /\ UNCHANGED <<hookVars, sseVars>>
    \/ Tick /\ Quiet /\ UNCHANGED <<hookVars, sseVars>>

SpecStats == InitTools /\ [][NextStats]_vars

-----------------------------------------------------------------------------
(* The webhook endpoints of index.ts and strava_get_recent_events *)

\* Number of webhook requests after which no more arrive
MaxEvents == 102

\* The number of activity events stored so far: the model gives the n-th
\* stored event the activity id n
Arrivals == IF recentEvents = <<>> THEN 0 ELSE recentEvents[1].activityId

\* The bodies posted: an activity event with the next activity id, an
\* activity event without object_id, an athlete event, an event of another
\* object type, and a body with none of the fields (an absent object_id and
\* 0 are both falsy; an absent object_type is no type the handler tests for)
EventBodies ==
    {[aspect_type |-> "create", event_time |-> Arrivals + 1,
      object_id |-> Arrivals + 1, object_type |-> "activity", owner_id |-> 7],
     [aspect_type |-> "create", event_time |-> Arrivals + 1,
      object_id |-> 0, object_type |-> "activity", owner_id |-> 7],
     [aspect_type |-> "update", event_time |-> Arrivals + 1,
      object_id |-> 7, object_type |-> "athlete", owner_id |-> 7],
     [aspect_type |-> "create", event_time |-> Arrivals + 1,
      object_id |-> 9, object_type |-> "club", owner_id |-> 7],
     [aspect_type |-> "", event_time |-> 0,
      object_id |-> 0, object_type |-> "", owner_id |-> 0]}

\* req.query of GET /webhook/strava: hub.mode, hub.verify_token, hub.challenge
Queries ==
    [mode : {Undefined, Str("subscribe"), Str("unsubscribe")},
     verify_token : {Undefined, Str("secret"), Str("wrong")},
     challenge : {Str("c1")}]

\* The limit arguments of the model
Limits == {Omitted} \cup {Num(n) : n \in {-1, 0, 1, 10, 100, 150}}

\* Variant: every event is stored, whatever its object type
WebhookPostStoresAll(event) ==
    /\ Arrivals < MaxEvents
    /\ recentEvents' =
          IF event.object_id # 0
          THEN addWebhookEvent(event.aspect_type, Arrivals + 1,
                               event.owner_id, event.event_time)
          ELSE recentEvents
    /\ http' = [method |-> "POST", request |-> event, status |-> 200,
                body |-> Str("EVENT_RECEIVED")]
    /\ last' = Step("webhookPost", "", "")
    /\ reply' = NoValue
    /\ UNCHANGED <<now, env, credVars, cache, task, grants, calls, tool,
                   verifyToken, sseVars>>

\* app.post('/webhook/strava')
WebhookPost(event) ==
    /\ Arrivals < MaxEvents
    /\ recentEvents' =
          IF event.object_type = "activity" /\ event.object_id # 0
          THEN addWebhookEvent(event.aspect_type, event.object_id,
                               event.owner_id, event.event_time)
          ELSE recentEvents
    /\ http' = [method |-> "POST", request |-> event, status |-> 200,
                body |-> Str("EVENT_RECEIVED")]
    /\ last' = Step("webhookPost", "", "")
    /\ reply' = NoValue
    /\ UNCHANGED <<now, env, credVars, cache, task, grants, calls, tool,
                   verifyToken, sseVars>>

\* app.get('/webhook/strava'): === on the query parameter and the environment
\* variable, either of which may be undefined
WebhookGet(q) ==
    /\ http' = IF q.mode = Str("subscribe") /\ q.verify_token = verifyToken
               THEN [method |-> "GET", request |-> q, status |-> 200,
                     body |-> q.challenge]
               ELSE [method |-> "GET", request |-> q, status |-> 403,
                     body |-> Str("Forbidden")]
    /\ last' = Step("webhookGet", "", "")
    /\ reply' = NoValue
    /\ UNCHANGED <<now, env, credVars, cache, task, grants, calls, tool,
                   recentEvents, verifyToken, sseVars>>

\* The CallTool handler, case 'strava_get_recent_events', with argument limit
GetRecentEvents(l) ==
    /\ reply' = RecentEventsReply(l)
    /\ last' = [op |-> "recentEvents", task |-> "", endpoint |-> "",
                result |-> NoValue, limit |-> l]
    /\ http' = NoExchange
    /\ UNCHANGED <<now, env, credVars, cache, task, grants, calls, tool,
                   recentEvents, verifyToken, sseVars>>

\* The state after startup, with WEBHOOK_VERIFY_TOKEN unset or set
InitWebhook ==
    /\ now = 0
    /\ env \in [STRAVA_ACCESS_TOKEN : {"A0"}, STRAVA_REFRESH_TOKEN : {"R0"},
                STRAVA_EXPIRES_AT : EnvExpires,
                STRAVA_CLIENT_ID : {"id"}, STRAVA_CLIENT_SECRET : {"secret"}]
    /\ accessToken = env.STRAVA_ACCESS_TOKEN
    /\ refreshToken = env.STRAVA_REFRESH_TOKEN
    /\ expiresAt = parseInt(env.STRAVA_EXPIRES_AT)
    /\ clientId = env.STRAVA_CLIENT_ID
    /\ clientSecret = env.STRAVA_CLIENT_SECRET
    /\ cache = [e \in Endpoints |-> NoEntry]
    /\ task = [t \in Tasks |-> IdleTask]
    /\ grants = 0
    /\ calls = 0
    /\ last = Step("init", "", "")
    /\ tool = [t \in Tasks |-> NoTool]
    /\ reply = NoValue
    /\ recentEvents = <<>>
    /\ verifyToken \in {Undefined, Str("secret")}
    /\ http = NoExchange
    /\ NoSessions

NextWebhook ==
    \/ \E event \in EventBodies : WebhookPost(event)
    \/ \E q \in Queries : WebhookGet(q)
    \/ \E l \in Limits : GetRecentEvents(l)

SpecWebhook == InitWebhook /\ [][NextWebhook]_vars

-----------------------------------------------------------------------------
(* The client and the webhook receiver in one process *)

\* Number of activity events the webhook receives next to the client calls
MaxServerEvents == 1

\* A step of the client: no request on /webhook/strava is handled in it
NoHook ==
    /\ http' = NoExchange
    /\ UNCHANGED <<toolVars, recentEvents, verifyToken, sseVars>>

\* Number of request() invocations made next to the webhook events
MaxServerCalls == 2

requestServer(t, e, u) ==
    /\ calls < MaxServerCalls
    /\ requestAlone(t, e, u)

WebhookPostServer(event) ==
    /\ Arrivals < MaxServerEvents
    /\ WebhookPost(event)

NextServer ==
    \/ \E t \in Tasks, e \in KeyEndpoints, u \in BOOLEAN :
          requestServer(t, e, u) /\ NoHook
    \/ \E t \in Tasks : TokenEndpoint(t) /\ NoHook
    \/ \E t \in Tasks : RefreshOk(t) /\ NoHook
    \/ \E t \in Tasks : RefreshFail(t) /\ NoHook
    \/ \E t \in Tasks : getValidTokenReturn(t) /\ NoHook
    \/ \E t \in Tasks : DataOk(t) /\ NoHook
    \/ \E t \in Tasks : DataFail(t) /\ NoHook
    \/ clearCache /\ NoHook
    \/ Tick /\ NoHook
    \/ \E event \in EventBodies : WebhookPostServer(event)

SpecServer == InitClient /\ [][NextServer]_vars

-----------------------------------------------------------------------------
(* The /sse endpoint of index.ts: one StreamableHTTPServerTransport per session *)

\* Number of transports created
MaxTransports == 3

\* A transport just constructed: it has no session id and is not closed
NewTransport == [sessionId |-> "", closed |-> FALSE]

\* sessionIdGenerator: randomUUID() never repeats; the n-th id is "s<n>"
NextSessionId ==
    "s" \o ToString(Cardinality({n \in DOMAIN sse.objects :
                                    sse.objects[n].sessionId # ""}) + 1)

\* The mcp-session-id headers a client can send: none (""), an id the server
\* never issued, or an id the server has issued
Headers ==
    {"", "unknown"} \cup {sse.objects[n].sessionId : n \in DOMAIN sse.objects}

\* The requests of the model: initialize, another JSON-RPC message, DELETE
SseRequests == [header : Headers, kind : {"initialize", "call", "delete"}]

\* Variant: any live session's transport serves a request with a session id
GetAnyTransport(h) ==
    IF h # "" /\ DOMAIN transports # {}
    THEN transports[CHOOSE id \in DOMAIN transports : TRUE]
    ELSE 0

\* sessionId ? transports.get(sessionId) : undefined (0 stands for undefined)
GetTransport(h) ==
    IF h # "" /\ h \in DOMAIN transports THEN transports[h] ELSE 0

\* onsessionclosed: transports.delete(id)
TransportsDelete(id) == [x \in DOMAIN transports \ {id} |-> transports[x]]

\* onsessioninitialized: transports.set(id, transport)
TransportsSet(id, n) ==
    [x \in DOMAIN transports \cup {id} |-> IF x = id THEN n ELSE transports[x]]

\* transport.handleRequest(req, res, req.body) on transport n.  The SDK's
\* transport gives itself a session id and calls onsessioninitialized when it
\* handles an initialize request for the first time; it closes and calls
\* onsessionclosed when it handles a DELETE that carries its session id; it
\* rejects everything else that does not belong to its session.
HandleRequest(n, req) ==
    LET o == sse.objects[n] IN
    /\ IF req.kind = "initialize" /\ o.sessionId = "" /\ ~o.closed
       THEN /\ transports' = TransportsSet(NextSessionId, n)
            /\ sse' = [sse EXCEPT !.objects[n].sessionId = NextSessionId,
                                  !.connecting = @ \ {[transport |-> n,
                                                       header |-> req.header,
                                                       kind |-> req.kind]},
                                  !.handled = [header |-> req.header,
                                               kind |-> req.kind, transport |-> n]]
       ELSE IF req.kind = "delete" /\ o.sessionId # "" /\ o.sessionId = req.header
                  /\ ~o.closed
       THEN /\ transports' = TransportsDelete(o.sessionId)
            /\ sse' = [sse EXCEPT !.objects[n].closed = TRUE,
                                  !.handled = [header |-> req.header,
                                               kind |-> req.kind, transport |-> n]]
       ELSE /\ transports' = transports
            /\ sse' = [sse EXCEPT !.connecting = @ \ {[transport |-> n,
                                                       header |-> req.header,
                                                       kind |-> req.kind]},
                                  !.handled = [header |-> req.header,
                                               kind |-> req.kind, transport |-> n]]
    /\ last' = Step("sse", "", "")
    /\ reply' = NoValue
    /\ http' = NoExchange
    /\ UNCHANGED <<now, env, credVars, cache, task, grants, calls, tool,
                   recentEvents, verifyToken>>

\* app.all('/sse'), up to its first await: a request whose session id has a
\* transport in the map is handled by that transport; for any other request
\* a transport is created and the handler awaits server.connect(transport).
SseRequest(req) ==
    IF GetTransport(req.header) # 0
    THEN HandleRequest(GetTransport(req.header), req)
    ELSE /\ Len(sse.objects) < MaxTransports
         /\ sse' = [sse EXCEPT !.objects = Append(@, NewTransport),
                               !.connecting = @ \cup {[transport |-> Len(sse.objects) + 1,
                                                       header |-> req.header,
                                                       kind |-> req.kind]},
                               !.handled = NoRequest]
         /\ last' = Step("sse", "", "")
         /\ reply' = NoValue
         /\ http' = NoExchange
         /\ UNCHANGED <<now, env, credVars, cache, task, grants, calls, tool,
                        recentEvents, verifyToken, transports>>

\* server.connect(transport) has resolved: the handler goes on to
\* transport.handleRequest with the transport it created.
SseConnected(p) ==
    /\ p \in sse.connecting
    /\ HandleRequest(p.transport, [header |-> p.header, kind |-> p.kind])

NextSse ==
    \/ \E req \in SseRequests : SseRequest(req)
    \/ \E p \in sse.connecting : SseConnected(p)

SpecSse == InitWebhook /\ [][NextSse]_vars

-----------------------------------------------------------------------------
(* searchActivities of search-activities.ts, after the activities are fetched *)

\* Length of the fetched list
MaxActivities == 2

\* String.prototype.toLowerCase on the sport types of the model
toLowerCase(str) ==
    CASE str \in {"Run", "RUN", "run"} -> "run"
      [] str \in {"Ride", "RIDE", "ride"} -> "ride"
      [] OTHER -> str

\* What Strava returns for an activity, less its id: sport type, meters,
\* seconds
ActivityKinds ==
    {[sport_type |-> "Run", distance |-> 5000, moving_time |-> 1800],
     [sport_type |-> "Run", distance |-> 10000, moving_time |-> 3600],
     [sport_type |-> "Ride", distance |-> 20000, moving_time |-> 3600],
     [sport_type |-> "Ride", distance |-> 5000, moving_time |-> 59]}

\* The lists getActivities can return: the i-th activity has id i
FetchedLists ==
    UNION {[1..n -> ActivityKinds] : n \in 0..MaxActivities}

WithIds(kinds) ==
    [i \in 1..Len(kinds) |->
        [id |-> i, sport_type |-> kinds[i].sport_type,
         distance |-> kinds[i].distance, moving_time |-> kinds[i].moving_time]]

\* The arguments of the tool, without dates
SearchParams ==
    [sport_type : {Undefined, Str(""), Str("RUN"), Str("ride")},
     min_distance : {Omitted, Num(0), Num(5000), Num(6000)},
     min_time : {Omitted, Num(1800)}]

\* if (params.sport_type): an absent and an empty string are falsy
SportMatches(a, params) ==
    (params.sport_type.kind = "string" /\ params.sport_type.s # "") =>
        toLowerCase(a.sport_type) = toLowerCase(params.sport_type.s)

\* Variant: the distance has to exceed the minimum
DistanceMatchesStrict(a, params) ==
    (params.min_distance.kind = "number" /\ params.min_distance.n # 0) =>
        a.distance > params.min_distance.n

\* if (params.min_distance): an absent number and 0 are falsy
DistanceMatches(a, params) ==
    (params.min_distance.kind = "number" /\ params.min_distance.n # 0) =>
        a.distance >= params.min_distance.n

\* if (params.min_time)
TimeMatches(a, params) ==
    (params.min_time.kind = "number" /\ params.min_time.n # 0) =>
        a.moving_time >= params.min_time.n

\* The three filter() calls, one after the other
FilterActivities(activities, params) ==
    LET bySport == SelectSeq(activities, LAMBDA a : SportMatches(a, params))
        byDistance == SelectSeq(bySport, LAMBDA a : DistanceMatches(a, params))
    IN  SelectSeq(byDistance, LAMBDA a : TimeMatches(a, params))

\* secs.toString().padStart(2, '0')
PadStart2(n) == IF n < 10 THEN "0" \o ToString(n) ELSE ToString(n)

formatDuration(seconds) ==
    LET hours == seconds \div 3600
        minutes == (seconds % 3600) \div 60
        secs == seconds % 60
    IN  IF hours > 0
        THEN ToString(hours) \o "h " \o ToString(minutes) \o "m"
        ELSE ToString(minutes) \o ":" \o PadStart2(secs)

\* `${(distance / 1000).toFixed(2)} km` for a whole number of meters
DistanceKm(meters) ==
    LET hundredths == (meters + 5) \div 10 IN
    ToString(hundredths \div 100) \o "." \o PadStart2(hundredths % 100) \o " km"

\* One entry of formattedActivities (name, date, elevation and heart rate are
\* copied or rendered from fields the model does not carry)
FormattedActivity(a) ==
    [id |-> a.id, type |-> a.sport_type, distance |-> DistanceKm(a.distance),
     duration |-> formatDuration(a.moving_time)]

\* What searchActivities returns, before JSON.stringify
SearchResult(activities, params) ==
    LET filtered == FilterActivities(activities, params) IN
    IF Len(filtered) = 0
    THEN [summary |-> "No activities found matching the search criteria.",
          filters |-> params, count |-> 0, activities |-> <<>>]
    ELSE [summary |-> "Found " \o ToString(Len(filtered))
                         \o " activities matching the criteria",
          filters |-> params, count |-> Len(filtered),
          activities |-> [i \in 1..Len(filtered) |-> FormattedActivity(filtered[i])]]

\* A step of searchActivities: the arguments and the list it works on
SearchStep(op, params, fetched) ==
    [op |-> op, task |-> "", endpoint |-> "", result |-> NoValue,
     params |-> params, fetched |-> fetched]

\* getActivities has resolved: searchActivities holds its arguments and the
\* fetched list
InitSearch ==
    /\ now = 0
    /\ env \in [STRAVA_ACCESS_TOKEN : {"A0"}, STRAVA_REFRESH_TOKEN : {"R0"},
                STRAVA_EXPIRES_AT : EnvExpires,
                STRAVA_CLIENT_ID : {"id"}, STRAVA_CLIENT_SECRET : {"secret"}]
    /\ accessToken = env.STRAVA_ACCESS_TOKEN
    /\ refreshToken = env.STRAVA_REFRESH_TOKEN
    /\ expiresAt = parseInt(env.STRAVA_EXPIRES_AT)
    /\ clientId = env.STRAVA_CLIENT_ID
    /\ clientSecret = env.STRAVA_CLIENT_SECRET
    /\ cache = [e \in ToolEndpoints |-> NoEntry]
    /\ task = [t \in Tasks |-> IdleTask]
    /\ grants = 0
    /\ calls = 0
    /\ \E kinds \in FetchedLists, params \in SearchParams :
           last = SearchStep("fetched", params, WithIds(kinds))
    /\ tool = [t \in Tasks |-> NoTool]
    /\ reply = NoValue
    /\ NoWebhook
    /\ NoSessions

\* searchActivities filters and formats the fetched list and returns
Search ==
    /\ last.op = "fetched"
    /\ reply' = [isError |-> FALSE,
                 text |-> SearchResult(last.fetched, last.params).summary,
                 result |-> SearchResult(last.fetched, last.params)]
    /\ last' = SearchStep("search", last.params, last.fetched)
    /\ UNCHANGED <<now, env, credVars, cache, task, grants, calls, tool,
                   hookVars, sseVars>>

NextSearch == Search

SpecSearch == InitSearch /\ [][NextSearch]_vars

-----------------------------------------------------------------------------
(* Steps, as the properties below name them *)

\* The step is a request() call made by task t.
Called(t) == calls' = calls + 1 /\ last'.task = t

\* The step is a request() call by t that missed the cache.
Missed(t) == Called(t) /\ last'.op = "miss"

\* The step processes a successful refresh response for t.
Refreshed(t) == task[t].pc = "refreshing" /\ task'[t].pc = "refreshed"

\* The step processes a failed refresh for t.
RefreshFailed(t) == task[t].pc = "refreshing" /\ task'[t].pc = "idle"

Triple == <<accessToken, refreshToken, expiresAt>>

-----------------------------------------------------------------------------
(* Properties *)

\* C1: a getValidToken call made while currentTime <= expiresAt - 3600 (the
\* boundary included) returns the access token of the store, sends no refresh
\* request and leaves access token, refresh token and expiry as they were.
C1_ValidTokenReturnedAsIs ==
    [][\A t \in Tasks :
          (Missed(t) /\ now \div 1000 <= expiresAt - 3600) =>
              /\ task'[t].token = accessToken
              /\ task'[t].pc # "refreshing"
              /\ task'[t].nRefresh = 0
              /\ task'[t].sent = NoValue
              /\ grants' = grants
              /\ Triple' = Triple]_vars

C1_Witness ==
    /\ last.op = "miss"
    /\ now \div 1000 = expiresAt - 3600
    /\ task[last.task].pc = "fetching"
    /\ task[last.task].token = accessToken
    /\ task[last.task].nRefresh = 0

\* C2: with one request() in flight at a time, a getValidToken call made
\* while currentTime > expiresAt - 3600 sends exactly one refresh request
\* before it returns, and after a successful response it returns the
\* access_token of that response.
C2_OneRefreshThenNewToken ==
    [][\A t \in Tasks :
          /\ (Missed(t) /\ now \div 1000 > expiresAt - 3600) =>
                 /\ task'[t].pc = "refreshing"
                 /\ task'[t].nRefresh = 1
                 /\ task'[t].token = ""
          /\ (task[t].pc \in {"refreshing", "refreshed"}) =>
                 task'[t].nRefresh = IF task'[t].pc = "idle" THEN 0 ELSE 1
          /\ (task[t].pc = "refreshing" /\ task'[t].pc # "refreshing") =>
                 task[t].resp # NoValue \/ task'[t].pc = "idle"
          /\ (task[t].pc = "refreshed" /\ task'[t].pc # "refreshed") =>
                 /\ task'[t].pc = "fetching"
                 /\ task'[t].token = task[t].granted
                 /\ task'[t].auth = task[t].granted]_vars

C2_Witness ==
    /\ last.op = "fetch"
    /\ task[last.task].pc = "fetching"
    /\ task[last.task].nRefresh = 1
    /\ task[last.task].granted # ""
    /\ task[last.task].token = task[last.task].granted

\* C3: when a refresh fails with a non-2xx answer, access token, refresh token
\* and expiry keep their values, the error that reaches the caller of
\* request() carries the status and the body of the answer, and the
\* invocation ends without having sent a data call.
C3_FailedRefreshKeepsCredentials ==
    [][\A t \in Tasks :
          RefreshFailed(t) =>
              /\ Triple' = Triple
              /\ last'.op = "refreshFail" /\ last'.task = t
              /\ last'.result.type = "error"
              /\ last'.result.status # 200 =>
                    /\ last'.result.message = "Failed to refresh token"
                    /\ last'.result.status \in FailStatus
                    /\ last'.result.body = BodyOf(last'.result.status)
              /\ task[t].nData = 0
              /\ task'[t] = IdleTask]_vars

C3_Witness ==
    /\ last.op = "refreshFail"
    /\ last.result.status = 401
    /\ last.result.body = "Unauthorized"
    /\ accessToken = env.STRAVA_ACCESS_TOKEN
    /\ refreshToken = env.STRAVA_REFRESH_TOKEN
    /\ task[last.task].pc = "idle"

\* C4: access token, refresh token and expiry are replaced together: they
\* start as the configuration's values, and every step either leaves all
\* three alone or sets all three from one refresh response.
C4_TripleReplacedAtomically ==
    /\ Triple = <<env.STRAVA_ACCESS_TOKEN, env.STRAVA_REFRESH_TOKEN,
                  parseInt(env.STRAVA_EXPIRES_AT)>>
    /\ [][\/ Triple' = Triple
          \/ \E t \in Tasks :
                /\ task[t].resp # NoValue
                /\ Triple' = <<task[t].resp.access_token, task[t].resp.refresh_token,
                               task[t].resp.expires_at>>]_vars

C4_Witness ==
    /\ last.op = "refreshOk"
    /\ expiresAt # parseInt(env.STRAVA_EXPIRES_AT)
    /\ \E u \in Tasks : task[u].pc = "refreshing" /\ task[u].resp # NoValue

LatestGrantedToken ==
    IF grants = 0 THEN env.STRAVA_ACCESS_TOKEN ELSE "A" \o ToString(grants)

\* C6: whenever no refresh request or response is in flight, the store holds
\* the access token of the most recent grant of the token endpoint (of the
\* configuration when there was none).
C6_StoreHoldsLatestGrant ==
    (\A t \in Tasks : task[t].pc # "refreshing") => accessToken = LatestGrantedToken

\* C7: once the token endpoint has answered a refresh request carrying
\* refresh token R with a grant, no other refresh request carrying R is in
\* flight.
C7_RefreshTokenUsedOnce ==
    \A t, u \in Tasks :
        (t # u /\ task[t].pc = "refreshing" /\ task[t].resp # NoValue
               /\ task[u].pc = "refreshing")
            => task[u].sent.refresh_token # task[t].sent.refresh_token

\* C8: a request() that finds an entry for its endpoint stored less than
\* 5 minutes ago returns the payload of that entry, and the step calls no
\* getValidToken and sends nothing: no task leaves idle, no refresh request
\* and no data call exist afterwards that did not before, and the
\* credentials are not touched, whatever the expiry of the token.
C8_HitBypassesTokenAndNetwork ==
    [][\A t \in Tasks, e \in Endpoints :
          (Called(t) /\ last'.endpoint = e /\ cache[e] # NoEntry
              /\ now - cache[e].timestamp < 5 * 60 * 1000) =>
              /\ last'.op = "hit"
              /\ last'.result = [type |-> "ok", data |-> cache[e].data,
                                 fromCache |-> TRUE]
              /\ task' = task
              /\ grants' = grants
              /\ Triple' = Triple]_vars

C8_Witness ==
    /\ last.op = "hit"
    /\ last.result.type = "ok"
    /\ now \div 1000 > expiresAt - 3600
    /\ \A t \in Tasks : task[t].pc = "idle"

\* C9: a successful request() stores the payload it returns under its
\* endpoint with the current time; the entry of a key changes in no step but
\* such a store or clearCache; and a request() for the key made while the
\* entry is younger than the TTL returns exactly the stored payload and
\* leaves the cache as it was.
C9_CacheRoundTrip ==
    [][\A k \in Endpoints :
          /\ (last'.op = "dataOk" /\ last'.endpoint = k) =>
                 cache'[k] = [data |-> last'.result.data, timestamp |-> now]
          /\ (cache'[k] # cache[k]) =>
                 \/ last'.op = "dataOk" /\ last'.endpoint = k
                 \/ last'.op = "clearCache"
          /\ (calls' = calls + 1 /\ last'.endpoint = k /\ cache[k] # NoEntry
                 /\ now - cache[k].timestamp < cacheDuration) =>
                 /\ last'.result # NoValue
                 /\ last'.result.data = cache[k].data
                 /\ cache' = cache]_vars

C9_Witness ==
    /\ last.op = "hit"
    /\ calls = MaxCalls
    /\ cache[last.endpoint] # NoEntry
    /\ now > cache[last.endpoint].timestamp
    /\ last.result.data = cache[last.endpoint].data
    /\ last.result.data.endpoint = last.endpoint

\* C10: a request() whose endpoint has an entry stored 300000 ms ago or
\* earlier misses: it does not return from the cache but goes upstream (a
\* refresh request or the data call is sent), and the entry stays in the map.
C10_ExpiredEntryMisses ==
    [][\A t \in Tasks, e \in Endpoints :
          (Called(t) /\ last'.endpoint = e /\ cache[e] # NoEntry
              /\ now - cache[e].timestamp >= 300000) =>
              /\ last'.op = "miss"
              /\ last'.result = NoValue
              /\ task'[t].pc \in {"refreshing", "fetching"}
              /\ task'[t].nRefresh + task'[t].nData = 1
              /\ cache' = cache
              /\ cache'[e] # NoEntry]_vars

C10_Witness ==
    /\ last.op = "miss"
    /\ cache[last.endpoint] # NoEntry
    /\ now - cache[last.endpoint].timestamp = 300000
    /\ task[last.task].pc = "fetching"

\* The step processes a failed data call for t.
DataFailed(t) == task[t].pc = "fetching" /\ last'.op = "dataFail" /\ last'.task = t

\* C11: when a data call is answered with a non-2xx status, the request()
\* throws an error carrying the status and the body text, and the whole cache
\* is as before the step: no entry is made and the entry of the endpoint,
\* expired or not, is untouched.
C11_FailedDataCallLeavesCache ==
    [][\A t \in Tasks :
          DataFailed(t) =>
              /\ last'.result.type = "error"
              /\ last'.endpoint = task[t].endpoint
              /\ last'.result.status # 200 =>
                    /\ last'.result.message = "Strava API error"
                    /\ last'.result.status \in FailStatus
                    /\ last'.result.body = BodyOf(last'.result.status)
              /\ cache' = cache
              /\ task'[t] = IdleTask]_vars

C11_Witness ==
    /\ last.op = "dataFail"
    /\ last.result.status = 500
    /\ last.result.body = "Internal Server Error"
    /\ cache[last.endpoint] # NoEntry
    /\ now - cache[last.endpoint].timestamp >= cacheDuration

\* C12: one request() invocation sends at most one refresh request and at
\* most one data call.  The counts of an invocation never go down while it
\* runs; a failed data call (a 401 too) ends it; and after its refresh it
\* sends the data call even when the new expiry is inside the grace window.
C12_NoAutomaticRetry ==
    [][\A t \in Tasks :
          /\ task'[t].nRefresh <= 1
          /\ task'[t].nData <= 1
          /\ (task[t].pc # "idle" /\ task'[t].pc # "idle") =>
                 /\ task'[t].nRefresh >= task[t].nRefresh
                 /\ task'[t].nData >= task[t].nData
          /\ DataFailed(t) => task'[t].pc = "idle" /\ task'[t].nData = 0
          /\ (task[t].pc = "refreshed" /\ task'[t] # task[t]) =>
                 /\ task'[t].pc = "fetching"
                 /\ task'[t].nRefresh = 1
                 /\ task'[t].nData = 1]_vars

C12_Witness ==
    /\ last.op = "fetch"
    /\ now \div 1000 > expiresAt - 3600
    /\ task[last.task].pc = "fetching"
    /\ task[last.task].nRefresh = 1
    /\ task[last.task].nData = 1

\* The step sends the data call of task t.
Fetched(t) == task[t].pc # "fetching" /\ task'[t].pc = "fetching"

\* The access tokens the token endpoint has granted so far
GrantedTokens == {"A" \o ToString(k) : k \in 1..grants}

\* C13: a request() that misses the cache while the token is inside the grace
\* window sends no data call in that step but a refresh request; its data
\* call is sent only from the point where the response to its own refresh
\* request has been processed, and the Authorization header of that data call
\* carries the access token the store holds then, which a refresh response
\* put there: a granted token, never the token the store held when the
\* invocation sent its refresh request.
C13_RefreshThenRequest ==
    [][\A t \in Tasks :
          /\ (Missed(t) /\ NeedsRefresh(now, expiresAt)) =>
                 /\ task'[t].pc = "refreshing"
                 /\ task'[t].nData = 0
                 /\ task'[t].prior = accessToken
          /\ (Fetched(t) /\ task'[t].nRefresh = 1) =>
                 /\ task[t].pc = "refreshed"
                 /\ task[t].granted \in GrantedTokens
                 /\ task'[t].auth = accessToken
                 /\ task'[t].auth \in GrantedTokens
                 /\ task'[t].auth # task[t].prior]_vars

C13_Witness ==
    /\ last.op = "fetch"
    /\ task[last.task].pc = "fetching"
    /\ task[last.task].nRefresh = 1
    /\ task[last.task].prior = "A0"
    /\ task[last.task].auth = "A1"
    /\ task[last.task].granted = "A1"

\* C14: a refresh that fails leaves the credentials as they were and the task
\* ready for the next request(); a request() that misses the cache right
\* after the failure, with the token still inside the grace window, sends a
\* new refresh request that carries the refresh token of the store, which the
\* failure did not change; and when a refresh succeeds the invocation goes on
\* to its data call.
C14_FailedRefreshNotSticky ==
    [][\A t \in Tasks :
          /\ RefreshFailed(t) =>
                 /\ refreshToken' = refreshToken
                 /\ expiresAt' = expiresAt
                 /\ task'[t] = IdleTask
                 /\ last'.op = "refreshFail"
          /\ (last.op = "refreshFail" /\ Missed(t)
                /\ NeedsRefresh(now, expiresAt)) =>
                 /\ last'.afterFailure
                 /\ task'[t].pc = "refreshing"
                 /\ task'[t].nRefresh = 1
                 /\ task'[t].sent = RefreshBody
                 /\ task'[t].sent.refresh_token = refreshToken
                 /\ refreshToken' = refreshToken
          /\ (task[t].pc = "refreshed" /\ task'[t] # task[t]) =>
                 task'[t].pc = "fetching"]_vars

\* The retry is in flight: the call before it failed in its refresh.
C14_Witness ==
    /\ last.op = "miss"
    /\ last.afterFailure
    /\ task[last.task].pc = "refreshing"
    /\ task[last.task].sent.refresh_token = refreshToken
    /\ refreshToken = "R0"
    /\ grants = 0

\* C17: the client id and the client secret are those of the configuration
\* in every state, and every refresh request in flight carries them together
\* with grant_type "refresh_token".
C17_ClientCredentialsFixed ==
    /\ clientId = env.STRAVA_CLIENT_ID
    /\ clientSecret = env.STRAVA_CLIENT_SECRET
    /\ \A t \in Tasks :
          task[t].pc = "refreshing" =>
              /\ task[t].sent.client_id = env.STRAVA_CLIENT_ID
              /\ task[t].sent.client_secret = env.STRAVA_CLIENT_SECRET
              /\ task[t].sent.grant_type = "refresh_token"

\* A refresh request sent after the stored tokens have been replaced
C17_Witness ==
    /\ last.op = "miss"
    /\ task[last.task].pc = "refreshing"
    /\ grants >= 1
    /\ accessToken # env.STRAVA_ACCESS_TOKEN
    /\ refreshToken # env.STRAVA_REFRESH_TOKEN
    /\ task[last.task].sent.client_id = "id"
    /\ task[last.task].sent.client_secret = "secret"

\* The state right after a request() of task t completed: with a payload, or
\* with an error thrown to its caller.
Completed(t) ==
    /\ last.task = t
    /\ last.op \in {"dataOk", "dataFail", "refreshFail"}
    /\ last.result.type \in {"ok", "error"}
    /\ last.result.type = "ok" <=> last.op = "dataOk"
    /\ task[t].pc = "idle"

\* C18: when upstream answers every request, every request() that went to the
\* network completes: it returns the payload, or it throws an error to its
\* caller.  (A request() served by the cache completes in its first step.)
C18_EveryRequestCompletes ==
    \A t \in Tasks : (task[t].pc # "idle") ~> Completed(t)

\* A call has completed with a payload while another one is still waiting
C18_Witness ==
    /\ Completed(last.task)
    /\ last.op = "dataOk"
    /\ \E u \in Tasks : task[u].pc = "refreshing"

\* One of the four variables the constructor tests is unset or empty.
CredentialMissing ==
    \/ env.STRAVA_CLIENT_ID = ""
    \/ env.STRAVA_CLIENT_SECRET = ""
    \/ env.STRAVA_ACCESS_TOKEN = ""
    \/ env.STRAVA_REFRESH_TOKEN = ""

\* C15: when the client id, the client secret, the initial access token or
\* the initial refresh token is unset or empty, the process has exited with
\* code 1 and has served nothing: no request() was made, nothing was sent,
\* the cache is empty.  A process that runs holds all four, non-empty.
C15_StartupFailFast ==
    /\ CredentialMissing =>
          /\ ~Running
          /\ last.result.type = "error"
          /\ last.result.code = 1
          /\ calls = 0
          /\ grants = 0
          /\ \A t \in Tasks : task[t] = IdleTask
          /\ \A e \in Endpoints : cache[e] = NoEntry
    /\ Running =>
          /\ ~CredentialMissing
          /\ accessToken # ""
          /\ refreshToken # ""
          /\ clientId = env.STRAVA_CLIENT_ID
          /\ clientSecret = env.STRAVA_CLIENT_SECRET

\* The refresh token alone is missing: the process has exited.
C15_Witness ==
    /\ env.STRAVA_REFRESH_TOKEN = ""
    /\ env.STRAVA_ACCESS_TOKEN = "A0"
    /\ env.STRAVA_CLIENT_ID = "id"
    /\ env.STRAVA_CLIENT_SECRET = "secret"
    /\ last.op = "exit"
    /\ last.result.code = 1

\* C16: when the initial expiry timestamp is unset, startup fails with a
\* fatal configuration error and the process serves no request.
C16_MissingExpiryIsFatal ==
    env.STRAVA_EXPIRES_AT = "" => (~Running /\ calls = 0)

\* The step ends, with an error, a client call that a tool of task t awaits.
ToolCallFailed(t) ==
    /\ tool[t] # NoTool
    /\ last'.task = t
    /\ last'.op \in {"refreshFail", "dataFail"}

\* C19: every step that ends a tool call returns a reply, and no step ends
\* the process.  When the client call of a tool throws (a failed refresh, a
\* non-2xx data answer, a body that is not JSON) the reply has isError true
\* and the text "Error: " followed by the error's message, the credentials
\* and the cache are what they were, and no task is left busy; an unknown
\* tool name is answered the same way without any client call.  isError is
\* set for errors only.
C19_ToolErrorsAnswered ==
    [][/\ last'.op # "exit"
       /\ \A t \in Tasks :
             /\ (tool[t] # NoTool /\ tool'[t] = NoTool) =>
                    /\ reply' # NoValue
                    /\ reply'.isError \in BOOLEAN
             /\ ToolCallFailed(t) =>
                    /\ reply' = [isError |-> TRUE,
                                 text |-> "Error: " \o ErrorMessage(last'.result)]
                    /\ last'.result.type = "error"
                    /\ UNCHANGED <<credVars, cache>>
                    /\ \A x \in Tasks : tool'[x] = NoTool /\ task'[x] = IdleTask
       /\ (last'.op = "callTool" /\ reply'.isError) =>
              /\ reply'.text = "Error: Unknown tool: strava_delete_activity"
              /\ UNCHANGED <<credVars, cache, task, tool, calls>>
       /\ (reply' # NoValue /\ reply'.isError) =>
              last'.op \in {"refreshFail", "dataFail", "callTool"}]_vars

\* An error reply of a later tool call: an earlier one filled the cache and
\* refreshed the token, and both are still in place.
C19_Witness ==
    /\ reply = [isError |-> TRUE, text |-> "Error: Strava API error: 401 Unauthorized"]
    /\ last.op = "dataFail"
    /\ accessToken = "A1"
    /\ \E e \in DOMAIN cache : cache[e] # NoEntry
    /\ \A t \in Tasks : tool[t] = NoTool

\* The step is tool call c made by task t.
ToolCalled(t, c) ==
    /\ Called(t)
    /\ \A x \in Tasks : tool[x] = NoTool
    /\ c.name \in ActivityTools
    /\ last'.endpoint = FirstEndpoint(c, now)

\* C20: when strava_get_activities, strava_search_activities without dates
\* or strava_analyze_trends is called with the arguments of a call made less
\* than five minutes before that succeeded, the call is served from the
\* cache and sends no data call.
C20_RepeatedToolCallServedFromCache ==
    [][\A t \in Tasks, c \in ToolCalls :
          (/\ ToolCalled(t, c)
           /\ \E i \in Instants :
                 /\ i <= now
                 /\ now - i < cacheDuration
                 /\ cache[FirstEndpoint(c, i)] # NoEntry) =>
              /\ last'.op = "hit"
              /\ task'[t].pc = "idle"
              /\ reply' # NoValue]_vars

\* C24: under overlapping calls too, a getValidToken call that sent a refresh
\* request returns the access_token of the response to that request.
C24_ReturnsOwnRefreshedToken ==
    [][\A t \in Tasks :
          (Fetched(t) /\ task'[t].nRefresh = 1) =>
              task'[t].token = task[t].granted]_vars

\* C25: a request() that misses the cache inside the grace window sends its
\* own refresh request with the refresh token of the store, whether or not
\* another refresh request is in flight; a refresh request in flight does not
\* change the store, so as long as no response has been processed every such
\* request carries the same refresh token.
C25_RefreshesNotDeduplicated ==
    [][\A t \in Tasks :
          (Missed(t) /\ NeedsRefresh(now, expiresAt)) =>
              /\ task'[t].pc = "refreshing"
              /\ task'[t].sent.refresh_token = refreshToken
              /\ refreshToken' = refreshToken
              /\ \A u \in Tasks \ {t} :
                    /\ task'[u] = task[u]
                    /\ (task[u].pc = "refreshing" /\ grants = 0) =>
                           task'[u].sent.refresh_token = task'[t].sent.refresh_token]_vars

\* Two refresh requests in flight, unanswered, with the same refresh token
C25_Witness ==
    /\ \A t \in Tasks :
          /\ task[t].pc = "refreshing"
          /\ task[t].resp = NoValue
          /\ task[t].sent.refresh_token = "R0"
    /\ grants = 0

\* C26: while the entry stored for an endpoint is less than five minutes old,
\* no request() with useCache sends a data call for that endpoint.
C26_NoDataCallWhileEntryFresh ==
    [][\A t \in Tasks :
          (Fetched(t) /\ task'[t].useCache) =>
              ~CacheFresh(cache[task'[t].endpoint], now)]_vars

\* C27: every entry of the cache holds, under key e, the payload of a 2xx
\* answer to a data call for exactly the endpoint string e; a request() served
\* from the cache returns the payload stored under its own endpoint string,
\* stored less than five minutes before; and a store under one string leaves
\* the entry of every other string, the same query with its parameters in
\* another order included, as it was.
C27_CacheSoundByKey ==
    [][/\ \A e \in DOMAIN cache :
             cache'[e] # NoEntry =>
                 /\ cache'[e].data.endpoint = e
                 /\ cache'[e].timestamp <= now'
       /\ last'.op = "hit" =>
             /\ last'.result.data = cache[last'.endpoint].data
             /\ last'.result.data.endpoint = last'.endpoint
             /\ now - cache[last'.endpoint].timestamp < cacheDuration
       /\ last'.op = "dataOk" =>
             /\ last'.result.data.endpoint = last'.endpoint
             /\ \A e \in DOMAIN cache \ {last'.endpoint} : cache'[e] = cache[e]]_vars

\* A hit for one string while the other order of the same query holds a
\* different payload
C27_Witness ==
    /\ last.op = "hit"
    /\ OtherOrder(last.endpoint) # last.endpoint
    /\ cache[OtherOrder(last.endpoint)] # NoEntry
    /\ cache[OtherOrder(last.endpoint)].data.version # last.result.data.version
    /\ cache[OtherOrder(last.endpoint)].data.endpoint = OtherOrder(last.endpoint)

\* C28: a request() made with useCache = false goes upstream even when a
\* fresh entry for its endpoint exists (a miss on a fresh entry is always such
\* a call, and it obtains a token: a refresh request or the data call is
\* sent), and no step of the invocation, its successful or failed end
\* included, changes the cache.
C28_NoCacheBypasses ==
    [][\A t \in Tasks :
          /\ (Missed(t) /\ CacheFresh(cache[last'.endpoint], now)) =>
                 /\ ~task'[t].useCache
                 /\ task'[t].pc \in {"refreshing", "fetching"}
                 /\ task'[t].nRefresh + task'[t].nData = 1
          /\ (Missed(t) /\ ~task'[t].useCache) => cache' = cache
          /\ (task[t].pc # "idle" /\ ~task[t].useCache /\ task'[t] # task[t]) =>
                 cache' = cache
          /\ (Fetched(t) /\ ~task'[t].useCache) => task'[t].auth = accessToken]_vars

\* A payload came back from upstream while the fresh entry of its endpoint
\* holds another one: the call went around the cache and did not store.
C28_Witness ==
    /\ last.op = "dataOk"
    /\ CacheFresh(cache[last.endpoint], now)
    /\ cache[last.endpoint].data.version # last.result.data.version
    /\ cache[last.endpoint].timestamp < now

\* C29: a request() step, hit or miss, leaves the whole cache as it was; an
\* entry disappears in no step but clearCache; and an entry past its TTL
\* changes only by clearCache or by the store of a successful request for
\* its own key, which writes the new payload with the current time and
\* leaves the entry of every other key as it was.
C29_ReadsNeverEvict ==
    [][/\ (calls' = calls + 1) => cache' = cache
       /\ \A k \in DOMAIN cache :
             /\ (cache[k] # NoEntry /\ cache'[k] = NoEntry) =>
                    last'.op = "clearCache"
             /\ (cache[k] # NoEntry /\ ~CacheFresh(cache[k], now)
                    /\ cache'[k] # cache[k] /\ last'.op # "clearCache") =>
                    /\ last'.op = "dataOk"
                    /\ last'.endpoint = k
                    /\ cache'[k].data = last'.result.data
                    /\ cache'[k].timestamp = now
                    /\ CacheFresh(cache'[k], now)
                    /\ \A j \in DOMAIN cache \ {k} : cache'[j] = cache[j]]_vars

\* A read has just missed on an entry past its TTL, which is still there,
\* next to the entry of the other key
C29_Witness ==
    /\ last.op = "miss"
    /\ cache[last.endpoint] # NoEntry
    /\ ~CacheFresh(cache[last.endpoint], now)
    /\ task[last.task].pc = "refreshing"
    /\ \A k \in DOMAIN cache : cache[k] # NoEntry

\* C30: clearCache leaves no entry in the map and changes neither the
\* credentials nor any invocation in flight; a request() made right after it
\* (as any request() that finds no entry) misses and goes upstream; and a
\* step that removes an entry is a clearCache step.
C30_ClearCacheTotal ==
    [][/\ last'.op = "clearCache" =>
             /\ \A k \in DOMAIN cache : cache'[k] = NoEntry
             /\ \E k \in DOMAIN cache : cache[k] # NoEntry
             /\ credVars' = credVars
             /\ task' = task
       /\ \A t \in Tasks :
             (Called(t) /\ (last.op = "clearCache" \/ cache[last'.endpoint] = NoEntry)) =>
                 /\ last'.op = "miss"
                 /\ task'[t].pc \in {"refreshing", "fetching"}
       /\ (\E k \in DOMAIN cache : cache[k] # NoEntry /\ cache'[k] = NoEntry) =>
             (last'.op = "clearCache" /\ task' = task)]_vars

\* The cache has just been cleared of a fresh entry while the credentials of
\* a refresh stay in the store
C30_Witness ==
    /\ last.op = "clearCache"
    /\ \A k \in DOMAIN cache : cache[k] = NoEntry
    /\ accessToken = "A1"
    /\ refreshToken = "R1"
    /\ calls < MaxCalls

\* C21: the webhook buffer never holds more than 100 events; it is ordered
\* newest first, each entry one arrival older than the entry before it; an
\* activity event that arrives goes to the front, and when the buffer is
\* full exactly the oldest entry, the last one, is dropped; a request that
\* stores nothing leaves the buffer as it was.
C21_BufferHoldsLast100 ==
    [][/\ Len(recentEvents') <= 100
       /\ \A i \in 1..(Len(recentEvents') - 1) :
             recentEvents'[i].activityId = recentEvents'[i + 1].activityId + 1
       /\ IF /\ http'.method = "POST"
             /\ http'.request.object_type = "activity"
             /\ http'.request.object_id # 0
          THEN /\ recentEvents'[1].activityId = http'.request.object_id
               /\ recentEvents'[1].type = http'.request.aspect_type
               /\ recentEvents'[1].athleteId = http'.request.owner_id
               /\ recentEvents'[1].eventTime = http'.request.event_time * 1000
               /\ recentEvents'[1].timestamp = now
               /\ Tail(recentEvents') =
                     IF Len(recentEvents) = 100
                     THEN SubSeq(recentEvents, 1, 99)
                     ELSE recentEvents
          ELSE recentEvents' = recentEvents]_vars

\* The 101st activity event has just arrived: the buffer holds events 101
\* down to 2
C21_Witness ==
    /\ http.method = "POST"
    /\ http.request.object_id = 101
    /\ Len(recentEvents) = 100
    /\ recentEvents[1].activityId = 101
    /\ recentEvents[100].activityId = 2

\* C22: strava_get_recent_events returns the front of the buffer, newest
\* first; the number of events returned is at most the limit argument when
\* one is given, at most 100 always, and at most 10 when limit is omitted.
C22_RecentEventsWithinLimit ==
    last.op = "recentEvents" =>
        /\ Len(reply.events) <= Len(recentEvents)
        /\ \A i \in 1..Len(reply.events) :
              reply.events[i] = FormattedEvent(recentEvents[i])
        /\ Len(reply.events) <= 100
        /\ last.limit.kind = "number" => Len(reply.events) <= last.limit.n
        /\ last.limit.kind = "undefined" => Len(reply.events) <= 10

\* C23: GET /webhook/strava answers 200 with the challenge exactly when
\* hub.mode is "subscribe" and hub.verify_token is the configured secret, and
\* 403 otherwise; a request without hub.verify_token is answered 403,
\* whether WEBHOOK_VERIFY_TOKEN is set or not.
C23_VerificationNeedsSecret ==
    http.method = "GET" =>
        /\ http.status \in {200, 403}
        /\ http.status = 200 <=>
              /\ http.request.mode = Str("subscribe")
              /\ http.request.verify_token.kind = "string"
              /\ verifyToken.kind = "string"
              /\ http.request.verify_token.s = verifyToken.s
        /\ http.status = 200 => http.body = http.request.challenge
        /\ http.status = 403 => http.body = Str("Forbidden")
        /\ http.request.verify_token = Undefined => http.status = 403

\* C31: once a successful refresh has put into the store a credential that is
\* not inside the grace window (now <= expires_at - 3600), the store keeps
\* that access token and that expiry for as long as the clock has not passed
\* expires_at - 3600, and every getValidToken call made in that time returns
\* that access token and sends no refresh request.
C31_ValidAfterRefresh ==
    [][(accessToken \in GrantedTokens /\ ~NeedsRefresh(now, expiresAt)) =>
           /\ accessToken' = accessToken
           /\ expiresAt' = expiresAt
           /\ \A t \in Tasks :
                 Missed(t) =>
                     /\ task'[t].pc = "fetching"
                     /\ task'[t].token = accessToken
                     /\ task'[t].nRefresh = 0]_vars

\* C32: a refresh request is sent only in the step in which a request()
\* misses the cache (its entry is absent or expired) or bypasses it
\* (useCache false), and a data call only in such a step or when that
\* invocation's getValidToken returns; the token endpoint answers only a
\* request in flight.  A tick of the clock, a cache hit, clearCache and a
\* webhook event change no invocation and send nothing upstream.
C32_RefreshIsLazy ==
    [][/\ \A t \in Tasks :
             /\ task'[t].nRefresh > task[t].nRefresh =>
                    /\ Missed(t)
                    /\ task[t].pc = "idle"
                    /\ ~task'[t].useCache \/ ~CacheFresh(cache[last'.endpoint], now)
                    /\ NeedsRefresh(now, expiresAt)
             /\ task'[t].nData > task[t].nData =>
                    \/ /\ Missed(t)
                       /\ ~task'[t].useCache \/ ~CacheFresh(cache[last'.endpoint], now)
                    \/ task[t].pc = "refreshed" /\ last'.op = "fetch" /\ last'.task = t
       /\ grants' # grants => \E t \in Tasks : task[t].pc = "refreshing"
       /\ last'.op \in {"tick", "hit", "clearCache", "webhookPost"} =>
             /\ task' = task
             /\ grants' = grants]_vars

\* A webhook event has arrived and the clock has entered the grace window;
\* the call made last was served by the cache and nothing was ever refreshed
C32_Witness ==
    /\ last.op = "hit"
    /\ NeedsRefresh(now, expiresAt)
    /\ recentEvents # <<>>
    /\ grants = 0
    /\ accessToken = env.STRAVA_ACCESS_TOKEN
    /\ \A t \in Tasks : task[t] = IdleTask

\* C33: access token, refresh token and expiry change only in the step that
\* processes a successful refresh response, which sets them to the values of
\* that response; every other step (a data call answered with 2xx, with a
\* failure or with a body that is not JSON, a cache hit, a cache write,
\* clearCache, a failed refresh, a webhook event, a tick of the clock) leaves
\* all three as they were, and no step writes the configuration.
C33_OnlyRefreshWritesCredentials ==
    [][/\ Triple' # Triple =>
             /\ last'.op = "refreshOk"
             /\ \E t \in Tasks :
                   /\ Refreshed(t)
                   /\ last'.task = t
                   /\ Triple' = <<task[t].resp.access_token,
                                  task[t].resp.refresh_token,
                                  task[t].resp.expires_at>>
       /\ last'.op # "refreshOk" => Triple' = Triple
       /\ cache' # cache => Triple' = Triple
       /\ env' = env]_vars

\* A data call has just failed on a body that is not JSON; the store still
\* holds the credentials of the refresh made before, next to a cache entry
C33_Witness ==
    /\ last.op = "dataFail"
    /\ last.result = ParseError
    /\ accessToken = "A1"
    /\ refreshToken = "R1"
    /\ expiresAt = 7500
    /\ \E e \in DOMAIN cache : cache[e] # NoEntry

\* C34: when a data call is answered 2xx with a body that is not JSON,
\* request() throws the parse error to its caller, as it throws an upstream
\* error: the invocation ends there, having sent its one data call and no
\* other, the entry of its endpoint and every other entry are as before the
\* step, and nothing is sent in the step.
C34_ParseErrorLikeUpstreamError ==
    [][\A t \in Tasks :
          (DataFailed(t) /\ last'.result.status = 200) =>
              /\ last'.result = ParseError
              /\ last'.result.type = "error"
              /\ last'.endpoint = task[t].endpoint
              /\ task[t].nData = 1
              /\ task'[t] = IdleTask
              /\ \A x \in Tasks \ {t} : task'[x] = task[x]
              /\ cache'[task[t].endpoint] = cache[task[t].endpoint]
              /\ cache' = cache
              /\ grants' = grants
              /\ calls' = calls]_vars

\* A request() has just failed on a body that is not JSON and its endpoint
\* has no entry, while the other endpoint has kept its own
C34_Witness ==
    /\ last.op = "dataFail"
    /\ last.result = ParseError
    /\ cache[last.endpoint] = NoEntry
    /\ cache[OtherOrder(last.endpoint)] # NoEntry
    /\ \A t \in Tasks : task[t] = IdleTask

\* C35: strava_get_athlete_stats asks for the stats only after its
\* current-athlete lookup has returned a payload (from upstream or from the
\* cache), and never while a lookup of the tool is in flight; when the
\* current-athlete lookup fails the tool ends with an error reply and no
\* stats request follows; and a lookup whose entry is fresh is served from
\* the cache, so a call with both entries fresh starts no invocation and
\* sends nothing upstream.
C35_StatsLookupsInSequence ==
    [][\A t \in Tasks :
          /\ (Called(t) /\ last'.endpoint = StatsEndpoint) =>
                 /\ tool[t].name = "strava_get_athlete_stats"
                 /\ tool[t].phase = 2
                 /\ \A x \in Tasks : task[x].pc = "idle"
          /\ (tool[t].phase # 2 /\ tool'[t].phase = 2) =>
                 /\ last'.op \in {"hit", "dataOk"}
                 /\ last'.task = t
                 /\ last'.endpoint = "/athlete"
                 /\ last'.result.type = "ok"
                 /\ last'.result.data.endpoint = "/athlete"
          /\ (ToolCallFailed(t) /\ tool[t].phase = 1) =>
                 /\ last'.endpoint = "/athlete"
                 /\ tool'[t] = NoTool
                 /\ reply'.isError
                 /\ cache'[StatsEndpoint] = cache[StatsEndpoint]
                 /\ \A x \in Tasks : task'[x] = IdleTask
          /\ (Called(t) /\ tool[t] = NoTool) => last'.endpoint = "/athlete"
          /\ (Called(t) /\ CacheFresh(cache[last'.endpoint], now)) =>
                 /\ last'.op = "hit"
                 /\ task' = task
                 /\ grants' = grants
                 /\ last'.endpoint = StatsEndpoint =>
                        (reply' # NoValue /\ ~reply'.isError /\ tool'[t] = NoTool)]_vars

\* The tool has been called twice at the same instant: the second call found
\* both entries fresh and was answered from the cache
C35_Witness ==
    /\ calls = 4
    /\ now = 0
    /\ last.op = "hit"
    /\ last.endpoint = StatsEndpoint
    /\ CacheFresh(cache["/athlete"], now)
    /\ CacheFresh(cache[StatsEndpoint], now)
    /\ reply # NoValue
    /\ ~reply.isError
    /\ \A t \in Tasks : tool[t] = NoTool /\ task[t] = IdleTask

\* C36: the transports map holds a session id exactly while the session of
\* that id is initialized and not closed, and it holds it with the transport
\* of that session; a request on /sse without a session id, or with one that
\* is not in the map, is handled by the transport created for that request,
\* which serves no session yet; a request with a session id of the map is
\* handled by the transport stored under that id, whose session is the
\* request's.
C36_SessionMap ==
    [][/\ \A id \in DOMAIN transports' :
             /\ transports'[id] \in 1..Len(sse'.objects)
             /\ sse'.objects[transports'[id]].sessionId = id
             /\ ~sse'.objects[transports'[id]].closed
       /\ \A n \in 1..Len(sse'.objects) :
             (sse'.objects[n].sessionId # "" /\ ~sse'.objects[n].closed) =>
                 /\ sse'.objects[n].sessionId \in DOMAIN transports'
                 /\ transports'[sse'.objects[n].sessionId] = n
       /\ Len(sse'.objects) > Len(sse.objects) =>
             \E p \in sse'.connecting \ sse.connecting :
                 /\ p.header = "" \/ p.header \notin DOMAIN transports
                 /\ p.transport = Len(sse'.objects)
                 /\ sse'.objects[p.transport] = NewTransport
                 /\ transports' = transports
       /\ sse'.handled # NoRequest =>
             LET h == sse'.handled IN
             IF h.header # "" /\ h.header \in DOMAIN transports
             THEN /\ h.transport = transports[h.header]
                  /\ sse.objects[h.transport].sessionId = h.header
                  /\ \A p \in sse.connecting : p.transport # h.transport
             ELSE /\ h \in sse.connecting
                  /\ sse.objects[h.transport] = NewTransport
                  /\ \A id \in DOMAIN transports : transports[id] # h.transport]_vars

\* Two sessions are live; a request of the second one has just been handled
\* by the second transport, and a third transport waits for its connect
C36_Witness ==
    /\ DOMAIN transports = {"s1", "s2"}
    /\ transports["s1"] # transports["s2"]
    /\ sse.handled.header = "s2"
    /\ sse.handled.kind = "call"
    /\ sse.handled.transport = transports["s2"]
    /\ sse.connecting # {}

MeetsCriteria(a, params) ==
    /\ (params.sport_type.kind = "string" /\ params.sport_type.s # "") =>
           toLowerCase(a.sport_type) = toLowerCase(params.sport_type.s)
    /\ params.min_distance.kind = "number" => a.distance >= params.min_distance.n
    /\ params.min_time.kind = "number" => a.moving_time >= params.min_time.n

\* C38: every activity in the result of strava_search_activities is a
\* fetched activity that meets all the supplied criteria (sport type equal
\* ignoring case, distance >= min_distance, moving time >= min_time); every
\* fetched activity that meets them all is in the result, and the result
\* keeps the fetched order; the count is the number of activities returned.
\* An empty sport_type is no criterion.
C38_SearchFiltersConjunctive ==
    last.op = "search" =>
        LET found == reply.result.activities
            fetched == last.fetched
        IN  /\ reply.result.count = Len(found)
            /\ \A i \in 1..Len(found) :
                  /\ found[i].id \in 1..Len(fetched)
                  /\ MeetsCriteria(fetched[found[i].id], last.params)
                  /\ found[i].type = fetched[found[i].id].sport_type
            /\ \A j \in 1..Len(fetched) :
                  MeetsCriteria(fetched[j], last.params) =>
                      \E i \in 1..Len(found) : found[i].id = j
            /\ \A i, k \in 1..Len(found) : i < k => found[i].id < found[k].id

\* All three criteria are supplied, the sport type in another case; of two
\* fetched runs the one at the minimum distance is returned, the shorter one
\* is not
C38_Witness ==
    /\ last.op = "search"
    /\ last.params = [sport_type |-> Str("RUN"), min_distance |-> Num(5000),
                      min_time |-> Num(1800)]
    /\ Len(last.fetched) = 2
    /\ last.fetched[1].sport_type = "Ride"
    /\ last.fetched[2].distance = 5000
    /\ reply.result.count = 1
    /\ reply.result.activities[1].id = 2
    /\ reply.result.activities[1].distance = "5.00 km"
    /\ reply.result.activities[1].duration = "30:00"

====
